---- MODULE Spec2Model ----
(***************************************************************************)
(* A model of the go-reflector library (package reflector): the metadata   *)
(* builder, the metadata cache, the Obj wrapper and the ObjField views,    *)
(* over a small catalogue of Go types and a small heap of caller-owned     *)
(* struct variables.                                                       *)
(***************************************************************************)
EXTENDS Integers, Sequences, FiniteSets, TLC

(***************************************************************************)
(* Go types.  A type is a record [k |-> kind, n |-> name]; the pointer     *)
(* type *T is [k |-> "ptr", n |-> T].  reflect.TypeOf(nil) is NilType.     *)
(***************************************************************************)
NilType == [k |-> "invalid", n |-> ""]

StructNames ==
    {"Address", "Office", "Person", "Company", "Employee", "Staff",
     "address", "Secret", "TestStruct", "Triple", "Tagged"}

BaseKind(n) ==
    IF n \in StructNames THEN "struct"
    ELSE IF n = "string" THEN "string"
    ELSE IF n = "bool" THEN "bool"
    ELSE IF n = "error" THEN "interface"
    ELSE "int"

Named(n) == [k |-> BaseKind(n), n |-> n]
PtrTo(n) == [k |-> "ptr", n |-> n]

\* reflect.Type.Kind()
Kind(ty) == ty.k

\* the kinds of the declared types that are not structs or basic types:
\* IntSlice is []int, IntArray is [2]int, AnyMap is map[string]interface{},
\* Text is a string whose value is kept as the sequence of its bytes, and
\* any is interface{}
ContainerKinds ==
    [m \in {"IntSlice", "IntArray", "AnyMap", "Text", "any"} |->
        IF m = "IntSlice" THEN "slice"
        ELSE IF m = "IntArray" THEN "array"
        ELSE IF m = "AnyMap" THEN "map"
        ELSE IF m = "Text" THEN "string"
        ELSE "interface"]

\* the type declared under the name n
Declared(n) ==
    IF n \in DOMAIN ContainerKinds
    THEN [k |-> ContainerKinds[n], n |-> n]
    ELSE Named(n)

\* reflect.Type.Elem() of a pointer type
Elem(ty) == Declared(ty.n)

\* raw struct tags, as sequences of characters
TagBe  == <<"t","a","g",":","\"","b","e","\""," ","t","a","g","2",":","\"","1",",","2",",","3","\"">>
TagBi  == <<"t","a","g",":","\"","b","i","\"">>
TagBu  == <<"t","a","g",":","\"","b","u","\"">>
TagBa  == <<"b","u",":","\"","b","a","\"">>
TagTwo == <<"a",":","\"","1","\""," ","b",":","\"","2","\"">>
NoTag  == <<>>
TagQuoted == <<"q",":","\"","a","\\","\"","b","\"">>
TagBroken == <<"a",":","\"","1","\""," ","b",":","\"","\\","q","\"">>
TagEmpty  == <<"e",":","\"","\"">>
TagTwice  == <<"a",":","\"","1","\""," ","a",":","\"","2","\"">>
TagTrailing == <<" ","a",":","\"","1","\""," ","b",":","\"","2">>

\* reflect.StructField of a declared field: PkgPath is "" for an exported field
Fld(name, ty, tag) ==
    [Name |-> name, Type |-> ty, Anonymous |-> FALSE, PkgPath |-> "", Tag |-> tag]
Emb(name, ty) ==
    [Name |-> name, Type |-> ty, Anonymous |-> TRUE, PkgPath |-> "", Tag |-> NoTag]
Unexp(f) == [f EXCEPT !.PkgPath = "reflector"]

(***************************************************************************)
(* The struct types of the catalogue, fields in declaration order.         *)
(* Address, Person and Company are the types of the test suite; TestStruct *)
(* is tmp.TestStruct as the test suite uses it; the others are inputs that *)
(* exercise nesting, pointer embedding, unexported embedding and repeated  *)
(* names.                                                                  *)
(***************************************************************************)
StructDecl(n) ==
    CASE n = "Address" ->
           << Fld("Street", Named("string"), TagBe),
              Fld("Number", Named("int"), TagBi) >>
      [] n = "Office" ->
           << Fld("Number", Named("int"), NoTag),
              Fld("Street", Named("string"), NoTag) >>
      [] n = "Person" ->
           << Fld("Name", Named("string"), TagBu),
              Emb("Address", Named("Address")) >>
      [] n = "Company" ->
           << Emb("Address", Named("Address")),
              Fld("Number", Named("int"), TagBi) >>
      [] n = "Employee" ->
           << Emb("Person", Named("Person")),
              Fld("Salary", Named("int"), NoTag) >>
      [] n = "Staff" ->
           << Fld("Name", Named("string"), NoTag),
              Emb("Address", PtrTo("Address")) >>
      [] n = "address" ->
           << Fld("Street", Named("string"), NoTag),
              Unexp(Fld("zip", Named("int"), NoTag)) >>
      [] n = "Secret" ->
           << Unexp(Emb("address", Named("address"))),
              Fld("Title", Named("string"), NoTag) >>
      [] n = "TestStruct" ->
           << Unexp(Fld("_", Named("int"), TagBa)),
              Fld("Exported", Named("string"), NoTag),
              Unexp(Fld("unexported", Named("int"), TagTwo)) >>
      [] n = "Triple" ->
           << Emb("Address", Named("Address")),
              Emb("Office", Named("Office")),
              Fld("Street", Named("string"), NoTag) >>
      [] n = "Tagged" ->
           << Fld("Quoted", Named("string"), TagQuoted),
              Fld("Broken", Named("string"), TagBroken),
              Fld("Empty", Named("string"), TagEmpty),
              Fld("Twice", Named("string"), TagTwice),
              Fld("Trailing", Named("string"), TagTrailing),
              Unexp(Fld("hidden", Named("string"), TagBroken)) >>
      [] OTHER -> << >>

\* reflect.Type.NumField() / Field(i), i counted from 1 here
NumField(ty) == Len(StructDecl(ty.n))
TypeField(ty, i) == StructDecl(ty.n)[i]

\* the zero reflect.StructField
ZeroStructField ==
    [Name |-> "", Type |-> NilType, Anonymous |-> FALSE, PkgPath |-> "",
     Tag |-> NoTag, Index |-> << >>]

(***************************************************************************)
(* fieldListingType                                                        *)
(***************************************************************************)
fieldsAll == 0
fieldsAnonymous == 1
fieldsFlattenAnonymous == 2
fieldsNoFlattenAnonymous == 3

ListingTypes ==
    {fieldsAll, fieldsAnonymous, fieldsFlattenAnonymous, fieldsNoFlattenAnonymous}

RECURSIVE getFields(_, _)
RECURSIVE getFieldsLoop(_, _, _, _)

\* appendFields that lists an anonymous struct-typed field as well as
\* flattening it
appendFields_ListsEmbedded(fields, field, listingType) ==
    LET k == Kind(field.Type) IN
    IF listingType = fieldsAnonymous THEN
        IF field.Anonymous THEN Append(fields, field.Name) ELSE fields
    ELSE IF k = "struct" /\ field.Anonymous /\ listingType # fieldsNoFlattenAnonymous
    THEN Append(fields, field.Name) \o getFields(field.Type, listingType)
    ELSE Append(fields, field.Name)

\* appendFields that appends the name of an anonymous struct-typed field
\* after the fields of the embedded struct
appendFields_NameLast(fields, field, listingType) ==
    LET k == Kind(field.Type) IN
    IF listingType = fieldsAnonymous THEN
        IF field.Anonymous THEN Append(fields, field.Name) ELSE fields
    ELSE IF listingType = fieldsAll THEN
        IF k = "struct" /\ field.Anonymous
        THEN Append(fields \o getFields(field.Type, listingType), field.Name)
        ELSE Append(fields, field.Name)
    ELSE
        IF listingType = fieldsFlattenAnonymous /\ k = "struct" /\ field.Anonymous
        THEN fields \o getFields(field.Type, listingType)
        ELSE Append(fields, field.Name)

\* appendFields that skips the fields with a package path
appendFields_SkipsUnexported(fields, field, listingType) ==
    LET k == Kind(field.Type) IN
    IF field.PkgPath # "" THEN fields
    ELSE IF listingType = fieldsAnonymous THEN
        IF field.Anonymous THEN Append(fields, field.Name) ELSE fields
    ELSE IF listingType = fieldsAll THEN
        LET fields1 == Append(fields, field.Name) IN
        IF k = "struct" /\ field.Anonymous
        THEN fields1 \o getFields(field.Type, listingType)
        ELSE fields1
    ELSE
        IF listingType = fieldsFlattenAnonymous /\ k = "struct" /\ field.Anonymous
        THEN fields \o getFields(field.Type, listingType)
        ELSE Append(fields, field.Name)

\* getFields that lists nothing for a pointer type
getFields_NoElem(ty, listingType) ==
    IF Kind(ty) # "struct" THEN << >>
    ELSE getFieldsLoop(ty, listingType, 1, << >>)

\* ObjMetadata.appendFields
appendFields(fields, field, listingType) ==
    LET k == Kind(field.Type) IN
    IF listingType = fieldsAnonymous THEN
        IF field.Anonymous THEN Append(fields, field.Name) ELSE fields
    ELSE IF listingType = fieldsAll THEN
        LET fields1 == Append(fields, field.Name) IN
        IF k = "struct" /\ field.Anonymous
        THEN fields1 \o getFields(field.Type, listingType)
        ELSE fields1
    ELSE
        IF listingType = fieldsFlattenAnonymous /\ k = "struct" /\ field.Anonymous
        THEN fields \o getFields(field.Type, listingType)
        ELSE Append(fields, field.Name)

\* the for loop of ObjMetadata.getFields, from field i on
getFieldsLoop(ty, listingType, i, fields) ==
    IF i > NumField(ty) THEN fields
    ELSE getFieldsLoop(ty, listingType, i + 1,
                       appendFields(fields, TypeField(ty, i), listingType))

\* ObjMetadata.getFields
getFields(ty, listingType) ==
    LET t1 == IF Kind(ty) = "ptr" THEN Elem(ty) ELSE ty IN
    IF Kind(t1) # "struct" THEN << >>
    ELSE getFieldsLoop(t1, listingType, 1, << >>)

(***************************************************************************)
(* reflect.Type.FieldByName on a struct type: breadth-first over the       *)
(* embedded structs (through embedded pointers too); the shallowest level  *)
(* holding the name decides, and two matches on one level cancel.          *)
(* A level is a set of [ty, index] records, index the path from the root.  *)
(***************************************************************************)
LevelFields(level) ==
    UNION { { <<s, i>> : i \in 1..NumField(s.ty) } : s \in level }

LevelMatches(level, name) ==
    { p \in LevelFields(level) : TypeField(p[1].ty, p[2]).Name = name }

EmbeddedStruct(f) ==
    IF ~f.Anonymous THEN NilType
    ELSE IF Kind(f.Type) = "ptr" THEN Elem(f.Type)
    ELSE f.Type

NextLevel(level, visited) ==
    { [ty |-> EmbeddedStruct(TypeField(p[1].ty, p[2])),
       index |-> Append(p[1].index, p[2])] :
        p \in { q \in LevelFields(level) :
                  /\ Kind(EmbeddedStruct(TypeField(q[1].ty, q[2]))) = "struct"
                  /\ EmbeddedStruct(TypeField(q[1].ty, q[2])).n \notin visited } }

RECURSIVE FieldByNameLevel(_, _, _)
FieldByNameLevel(level, name, visited) ==
    IF level = {} THEN [found |-> FALSE, field |-> ZeroStructField]
    ELSE LET m == LevelMatches(level, name) IN
         IF Cardinality(m) > 1 THEN [found |-> FALSE, field |-> ZeroStructField]
         ELSE IF Cardinality(m) = 1 THEN
             LET p == CHOOSE q \in m : TRUE
                 f == TypeField(p[1].ty, p[2])
             IN [found |-> TRUE,
                 field |-> [Name |-> f.Name, Type |-> f.Type,
                            Anonymous |-> f.Anonymous, PkgPath |-> f.PkgPath,
                            Tag |-> f.Tag, Index |-> Append(p[1].index, p[2])]]
         ELSE FieldByNameLevel(NextLevel(level, visited), name,
                               visited \cup { s.ty.n : s \in level })

TypeFieldByName(ty, name) ==
    IF Kind(ty) # "struct" THEN [found |-> FALSE, field |-> ZeroStructField]
    ELSE FieldByNameLevel({[ty |-> ty, index |-> << >>]}, name, {})

(***************************************************************************)
(* Method sets.  A declared method is [name, ptrRecv]; reflect lists the   *)
(* method set of a type sorted by name: a pointer type has every method,   *)
(* a value type only those with a value receiver.  Employee gets Person's  *)
(* methods by embedding and declares Fire.                                 *)
(***************************************************************************)
Mth(name, ptrRecv) == [name |-> name, ptrRecv |-> ptrRecv]

MethodDecls(n) ==
    CASE n = "Person" ->
           << Mth("Add", FALSE), Mth("Hi", FALSE),
              Mth("ReturnsError", FALSE), Mth("Subtract", TRUE) >>
      [] n = "Employee" ->
           << Mth("Add", FALSE), Mth("Fire", TRUE), Mth("Hi", FALSE),
              Mth("ReturnsError", FALSE), Mth("Subtract", TRUE) >>
      [] n = "CustomType" ->
           << Mth("Method1", FALSE), Mth("Method2", TRUE) >>
      [] OTHER -> << >>

IsValueMethod(m) == ~m.ptrRecv

\* a method set that leaves the pointer-receiver methods out of a pointer
\* type's too
TypeMethods_ValueOnly(ty) ==
    IF Kind(ty) = "invalid" THEN << >>
    ELSE SelectSeq(MethodDecls(ty.n), IsValueMethod)

\* a method set that gives a value type the pointer-receiver methods too
TypeMethods_AllForValue(ty) ==
    IF Kind(ty) = "invalid" THEN << >> ELSE MethodDecls(ty.n)

\* reflect.Type.NumMethod() / Method(i)
TypeMethods(ty) ==
    IF Kind(ty) = "invalid" THEN << >>
    ELSE IF Kind(ty) = "ptr" THEN MethodDecls(ty.n)
    ELSE SelectSeq(MethodDecls(ty.n), IsValueMethod)

SeqRange(s) == { s[i] : i \in DOMAIN s }

\* reflect.Type.MethodByName
TypeMethodByName(ty, name) ==
    \E i \in DOMAIN TypeMethods(ty) : TypeMethods(ty)[i].name = name

(***************************************************************************)
(* Metadata builders                                                       *)
(***************************************************************************)
\* ObjMetadata.IsStructOrPtrToStruct
IsStructOrPtrToStruct(om) == om.isStruct \/ om.isPtrToStruct

\* newObjFieldMetadata; om carries isStruct, isPtrToStruct and objType
newObjFieldMetadata(ty, name, om) ==
    IF IsStructOrPtrToStruct(om) THEN
        LET r == IF om.isPtrToStruct
                 THEN TypeFieldByName(Elem(om.objType), name)
                 ELSE TypeFieldByName(om.objType, name)
        IN [name |-> name,
            structField |-> r.field,
            valid |-> IF r.field.Type = NilType THEN FALSE ELSE r.found,
            fieldKind |-> IF r.field.Type = NilType THEN "invalid"
                          ELSE Kind(r.field.Type),
            fieldType |-> r.field.Type]
    ELSE [name |-> name, structField |-> ZeroStructField, valid |-> FALSE,
          fieldKind |-> "invalid", fieldType |-> NilType]

\* newObjMethodMetadata
newObjMethodMetadata(ty, name, om) ==
    IF om.objKind = "invalid" THEN [name |-> name, valid |-> FALSE]
    ELSE [name |-> name, valid |-> TypeMethodByName(om.objType, name)]

\* newObjMetadata
newObjMetadata(ty) ==
    IF ty = NilType THEN
        [isStruct |-> FALSE, isPtrToStruct |-> FALSE,
         underlyingType |-> NilType, objType |-> NilType, objKind |-> "invalid",
         fields |-> << >>,
         fieldNamesAll |-> << >>, fieldNamesAnonymous |-> << >>,
         fieldNamesFlattenAnonymous |-> << >>,
         fieldNamesNoFlattenAnonymous |-> << >>,
         methods |-> << >>, methodNames |-> << >>]
    ELSE
        LET isStruct == Kind(ty) = "struct"
            isPtrToStruct == Kind(ty) = "ptr" /\ Kind(Elem(ty)) = "struct"
            res == [isStruct |-> isStruct, isPtrToStruct |-> isPtrToStruct,
                    objType |-> ty, objKind |-> Kind(ty)]
            allFields == getFields(ty, fieldsAll)
            methodNames == [i \in DOMAIN TypeMethods(ty) |-> TypeMethods(ty)[i].name]
        IN [isStruct |-> isStruct, isPtrToStruct |-> isPtrToStruct,
            underlyingType |-> IF isPtrToStruct THEN Elem(ty) ELSE ty,
            objType |-> ty, objKind |-> Kind(ty),
            fields |-> [n \in SeqRange(allFields) |->
                          newObjFieldMetadata(ty, n, res)],
            fieldNamesAll |-> allFields,
            fieldNamesAnonymous |-> getFields(ty, fieldsAnonymous),
            fieldNamesFlattenAnonymous |-> getFields(ty, fieldsFlattenAnonymous),
            fieldNamesNoFlattenAnonymous |-> getFields(ty, fieldsNoFlattenAnonymous),
            methods |-> [n \in SeqRange(methodNames) |->
                           newObjMethodMetadata(ty, n, res)],
            methodNames |-> methodNames]

(***************************************************************************)
(* Values.  An interface value is [ty, v, addr]: its dynamic type, its     *)
(* payload and, for a non-nil pointer, the heap cell it points to.  The    *)
(* payload of a struct is a function from field position to payload.      *)
(***************************************************************************)
NilIface == [ty |-> NilType, v |-> "nil", addr |-> 0]

RECURSIVE ZeroOf(_)
ZeroOf(ty) ==
    IF Kind(ty) = "struct"
    THEN [i \in 1..NumField(ty) |-> ZeroOf(TypeField(ty, i).Type)]
    ELSE IF Kind(ty) = "string" THEN ""
    ELSE IF Kind(ty) = "int" THEN 0
    ELSE "nilptr"

RECURSIVE Walk(_, _)
Walk(payload, path) ==
    IF path = << >> THEN payload ELSE Walk(payload[Head(path)], Tail(path))

RECURSIVE Store(_, _, _)
Store(payload, path, v) ==
    IF path = << >> THEN v
    ELSE [payload EXCEPT ![Head(path)] = Store(payload[Head(path)], Tail(path), v)]

\* the values a caller passes to Set
StrArg == [ty |-> Named("string"), v |-> "ulica", addr |-> 0]
IntArg == [ty |-> Named("int"), v |-> 17, addr |-> 0]
SetArgs == << NilIface, StrArg, IntArg >>

\* the other value of a scalar type, for the caller's own assignments
Toggle(ty, v) ==
    IF Kind(ty) = "string" THEN (IF v = "" THEN "ulica" ELSE "")
    ELSE (IF v = 0 THEN 17 ELSE 0)

(***************************************************************************)
(* reflect.Value: [valid, ty, addr, base, path, ro].  addr # 0 is an       *)
(* addressable value inside heap cell addr; otherwise base is the copy the *)
(* interface holds.  path leads from the root struct to the field, ro is   *)
(* the read-only flag of a value reached through an unexported field.      *)
(***************************************************************************)
ZeroValue ==
    [valid |-> FALSE, ty |-> NilType, addr |-> 0, base |-> "none",
     path |-> << >>, ro |-> FALSE]

\* reflect.ValueOf
ValueOf(iface) ==
    IF iface.ty = NilType THEN ZeroValue
    ELSE [valid |-> TRUE, ty |-> iface.ty, addr |-> 0, base |-> iface,
          path |-> << >>, ro |-> FALSE]

\* Indirect that leaves a pointer as it is
Indirect_NoDeref(v) ==
    IF v.valid /\ Kind(v.ty) # "ptr" THEN [v EXCEPT !.base = v.base.v] ELSE v

\* reflect.Indirect: the pointee of a pointer (the zero Value for a nil
\* pointer), any other value as it is
Indirect(v) ==
    IF ~v.valid \/ Kind(v.ty) # "ptr" THEN
        (IF v.valid THEN [v EXCEPT !.base = v.base.v] ELSE v)
    ELSE IF v.base.addr = 0 THEN ZeroValue
    ELSE [valid |-> TRUE, ty |-> Elem(v.ty), addr |-> v.base.addr,
          base |-> "heap", path |-> << >>, ro |-> FALSE]

\* reflect.Value.FieldByName: the field Type.FieldByName finds, reached by
\* its index path; an unexported field is read-only, an exported field
\* promoted through an unexported embedded struct is not
ValueFieldByName(v, name) ==
    LET r == TypeFieldByName(v.ty, name) IN
    IF ~r.found THEN ZeroValue
    ELSE [valid |-> TRUE, ty |-> r.field.Type, addr |-> v.addr, base |-> v.base,
          path |-> v.path \o r.field.Index,
          ro |-> v.ro \/ r.field.PkgPath # ""]

\* reflect.Value.CanSet: addressable and not read-only
CanSet(v) == v.valid /\ v.addr # 0 /\ ~v.ro

\* the payload a reflect.Value refers to, in heap h
Load(v, h) ==
    IF v.addr # 0 THEN Walk(h[v.addr].val, v.path) ELSE Walk(v.base, v.path)

\* reflect.Value.Interface
ValueInterface(v, h) == [ty |-> v.ty, v |-> Load(v, h), addr |-> 0]

IfaceEq(a, b) == a.ty = b.ty /\ a.v = b.v

(***************************************************************************)
(* State                                                                   *)
(***************************************************************************)
VARIABLES
    subject,         \* the struct type of the caller's variable p
    fname,           \* the field name the caller works with
    heap,            \* heap[1] is the caller's variable p
    objs,            \* the Obj wrappers New has returned (an Obj never changes)
    views,           \* the ObjField views the caller keeps
    metadataCache,   \* reflect.Type -> ObjMetadata
    metadataCached,  \* # of metadata cached
    last,            \* the last write attempt: Set or the caller's own
    pc,              \* pc[t]: where goroutine t is in its call of New
    local,           \* local[t]: the obj, found and metadata of t's call
    metadataCacheMutex  \* the sync.RWMutex: readers, writer, waiting writers

\* the state of the goroutines that call New concurrently
goroutines == <<pc, local, metadataCacheMutex>>

vars == <<subject, fname, heap, objs, views, metadataCache, metadataCached, last,
          pc, local, metadataCacheMutex>>

MaxObjs == 2
MaxViews == 1
MaxHeap == 2

Unknown == "Bogus"

\* the goroutines that call New, one call each
Procs == 1..MaxObjs

\* the types of the caller's variable p
SubjectTypes == StructNames \cup {"string", "CustomType"}

\* the names a caller asks for: every name FieldsAll lists, and an unknown one
NamesOf(n) == SeqRange(getFields(Named(n), fieldsAll)) \cup {Unknown}

(***************************************************************************)
(* Obj                                                                     *)
(***************************************************************************)
\* what the caller can pass to New: nil, p, &p, (*T)(nil)
ByValue(h) == [ty |-> Named(subject), v |-> h[1].val, addr |-> 0]
ByPointer == [ty |-> PtrTo(subject), v |-> "ptr", addr |-> 1]
NilPointer == [ty |-> PtrTo(subject), v |-> "nilptr", addr |-> 0]
NewInputs == { NilIface, ByValue(heap), ByPointer, NilPointer }

\* reflect.TypeOf
TypeOf(iface) == iface.ty

\* the Obj New returns, given the cache it finds
NewObj(obj, cache) ==
    LET ty == TypeOf(obj) IN
    [iface |-> obj,
     md |-> IF ty \in DOMAIN cache THEN cache[ty] ELSE newObjMetadata(TypeOf(obj)),
     fieldsValue |-> Indirect(ValueOf(obj))]

\* what a goroutine holds before its call: md is the nil *ObjMetadata until
\* the lookup or the build sets it
NoLocal == [obj |-> NilIface, found |-> FALSE, md |-> [objKind |-> "invalid"]]

\* a New that builds and counts the metadata on every call
New_Rebuilds(obj) ==
    /\ Cardinality(objs) < MaxObjs
    /\ LET ty == TypeOf(obj)
           o == NewObj(obj, << >>)
       IN /\ objs' = objs \cup {o}
          /\ metadataCache' = (ty :> o.md) @@ metadataCache
          /\ metadataCached' = metadataCached + 1
    /\ UNCHANGED <<subject, fname, heap, views, last>>
    /\ UNCHANGED goroutines

\* New
New(obj) ==
    /\ Cardinality(objs) < MaxObjs
    /\ LET ty == TypeOf(obj)
           o == NewObj(obj, metadataCache)
       IN /\ objs' = objs \cup {o}
          /\ IF ty \in DOMAIN metadataCache
             THEN UNCHANGED <<metadataCache, metadataCached>>
             ELSE /\ metadataCache' = (ty :> o.md) @@ metadataCache
                  /\ metadataCached' = metadataCached + 1
    /\ UNCHANGED <<subject, fname, heap, views, last>>
    /\ UNCHANGED goroutines

\* a NewFromType that wraps the fresh zero value itself, not a pointer to it
NewFromType_ByValue(ty) ==
    /\ Cardinality(objs) < MaxObjs
    /\ ty # NilType => Len(heap) < MaxHeap
    /\ LET obj == IF ty = NilType THEN NilIface
                  ELSE [ty |-> ty, v |-> ZeroOf(ty), addr |-> 0]
           o == NewObj(obj, metadataCache)
       IN /\ heap' = IF ty = NilType THEN heap
                     ELSE Append(heap, [ty |-> ty, val |-> ZeroOf(ty)])
          /\ objs' = objs \cup {o}
          /\ IF TypeOf(obj) \in DOMAIN metadataCache
             THEN UNCHANGED <<metadataCache, metadataCached>>
             ELSE /\ metadataCache' = (TypeOf(obj) :> o.md) @@ metadataCache
                  /\ metadataCached' = metadataCached + 1
          /\ last' = [op |-> "NewFromType", ty |-> ty, obj |-> obj]
    /\ UNCHANGED <<subject, fname, views>>
    /\ UNCHANGED goroutines

\* NewFromType: New(nil) for a nil type, else New of reflect.New(ty), a
\* pointer to a fresh zero value in a new heap cell
NewFromType(ty) ==
    /\ Cardinality(objs) < MaxObjs
    /\ ty # NilType => Len(heap) < MaxHeap
    /\ LET obj == IF ty = NilType THEN NilIface
                  ELSE [ty |-> PtrTo(ty.n), v |-> "ptr", addr |-> Len(heap) + 1]
           o == NewObj(obj, metadataCache)
       IN /\ heap' = IF ty = NilType THEN heap
                     ELSE Append(heap, [ty |-> ty, val |-> ZeroOf(ty)])
          /\ objs' = objs \cup {o}
          /\ IF TypeOf(obj) \in DOMAIN metadataCache
             THEN UNCHANGED <<metadataCache, metadataCached>>
             ELSE /\ metadataCache' = (TypeOf(obj) :> o.md) @@ metadataCache
                  /\ metadataCached' = metadataCached + 1
          /\ last' = [op |-> "NewFromType", ty |-> ty, obj |-> obj]
    /\ UNCHANGED <<subject, fname, views>>
    /\ UNCHANGED goroutines

\* IsValid that takes every Obj for valid
ObjIsValid_Always(o) == TRUE

\* Obj.IsValid
ObjIsValid(o) == o.md.objKind # "invalid"

\* Obj.IsPtr
IsPtr(o) == o.md.objKind = "ptr"

InvalidFieldMetadata(name) ==
    [name |-> name, structField |-> ZeroStructField, valid |-> FALSE,
     fieldKind |-> "invalid", fieldType |-> NilType]

\* no view: what the record of a write holds when no view was used
NoView ==
    [obj |-> NilIface, underlyingType |-> NilType,
     md |-> InvalidFieldMetadata(Unknown), value |-> ZeroValue]

\* newObjField that keeps a copy of the field's value as it is now
newObjField_Snapshot(o, metadata) ==
    LET v == ValueFieldByName(o.fieldsValue, metadata.name)
        root == IF o.fieldsValue.addr # 0 THEN heap[o.fieldsValue.addr].val
                ELSE o.fieldsValue.base
    IN [obj |-> o.iface,
        underlyingType |-> o.md.underlyingType,
        md |-> metadata,
        value |-> IF metadata.valid /\ IsStructOrPtrToStruct(o.md) /\ v.valid
                  THEN [v EXCEPT !.addr = 0, !.base = root]
                  ELSE ZeroValue]

\* newObjField
newObjField(o, metadata) ==
    [obj |-> o.iface,
     underlyingType |-> o.md.underlyingType,
     md |-> metadata,
     value |-> IF metadata.valid /\ IsStructOrPtrToStruct(o.md)
               THEN ValueFieldByName(o.fieldsValue, metadata.name)
               ELSE ZeroValue]

\* Obj.Field
Field(o, fieldName) ==
    IF o.fieldsValue.valid /\ fieldName \in DOMAIN o.md.fields
    THEN newObjField(o, o.md.fields[fieldName])
    ELSE newObjField(o, InvalidFieldMetadata(fieldName))

\* the caller keeps the view obj.Field(fname)
FieldAct(o) ==
    /\ Cardinality(views) < MaxViews
    /\ views' = views \cup {Field(o, fname)}
    /\ UNCHANGED <<subject, fname, heap, objs, metadataCache, metadataCached, last>>
    /\ UNCHANGED goroutines

\* Obj.getFields: the views of one listing
ObjGetFields(o, listingType) ==
    LET fieldNames ==
          IF listingType = fieldsAll THEN o.md.fieldNamesAll
          ELSE IF listingType = fieldsAnonymous THEN o.md.fieldNamesAnonymous
          ELSE IF listingType = fieldsFlattenAnonymous
               THEN o.md.fieldNamesFlattenAnonymous
          ELSE o.md.fieldNamesNoFlattenAnonymous
    IN [n \in DOMAIN fieldNames |-> Field(o, fieldNames[n])]

Fields(o) == ObjGetFields(o, fieldsNoFlattenAnonymous)
FieldsFlattened(o) == ObjGetFields(o, fieldsFlattenAnonymous)
FieldsAll(o) == ObjGetFields(o, fieldsAll)
FieldsAnonymous(o) == ObjGetFields(o, fieldsAnonymous)

\* ObjField.Name over a listing
ViewNames(fs) == [i \in DOMAIN fs |-> fs[i].md.name]

Count(s, x) == Cardinality({ i \in DOMAIN s : s[i] = x })

\* the loop of FindDoubleFields appending a name at every repeat
RECURSIVE FindDoubleLoop_EveryRepeat(_, _, _)
FindDoubleLoop_EveryRepeat(names, k, res) ==
    IF k > Len(names) THEN res
    ELSE LET counter == Count(SubSeq(names, 1, k - 1), names[k]) IN
         FindDoubleLoop_EveryRepeat(names, k + 1,
                        IF counter >= 1 THEN Append(res, names[k]) ELSE res)

\* the loop of FindDoubleFields over the first k fields
RECURSIVE FindDoubleLoop(_, _, _)
FindDoubleLoop(names, k, res) ==
    IF k > Len(names) THEN res
    ELSE LET counter == Count(SubSeq(names, 1, k - 1), names[k]) IN
         FindDoubleLoop(names, k + 1,
                        IF counter = 1 THEN Append(res, names[k]) ELSE res)

\* Obj.FindDoubleFields
FindDoubleFields(o) == FindDoubleLoop(ViewNames(FieldsAll(o)), 1, << >>)

(***************************************************************************)
(* ObjField                                                                *)
(***************************************************************************)
\* ObjField.IsValid
IsValid(of) == of.md.valid /\ of.value.valid

\* ObjField.Kind
ObjFieldKind(of) == of.md.fieldKind

\* ObjField.Type
ObjFieldType(of) == of.md.fieldType

\* ObjField.IsExported
IsExported(of) == of.md.structField.PkgPath = ""

\* IsSettable that does not ask whether the value is addressable
IsSettable_Unaddressable(of) == IsValid(of) /\ ~of.value.ro

\* IsSettable that does not ask whether the field is exported
IsSettable_Unexported(of) == of.value.valid /\ of.value.addr # 0

\* ObjField.IsSettable
IsSettable(of) == CanSet(of.value)

\* ObjField.IsAnonymous
IsAnonymous(of) ==
    IF ~IsValid(of) THEN FALSE
    ELSE LET r == TypeFieldByName(of.underlyingType, of.md.name) IN
         IF ~r.found THEN FALSE ELSE r.field.Anonymous

\* Get that does not ask whether the field is exported
Get_ReadsUnexported(of, h) ==
    IF ~IsValid(of) THEN [value |-> NilIface, err |-> "invalid field"]
    ELSE [value |-> ValueInterface(of.value, h), err |-> ""]

\* Get that does not assert that the field is valid
Get_NoAssert(of, h) ==
    IF ~IsExported(of)
    THEN [value |-> NilIface, err |-> "cannot read unexported field"]
    ELSE [value |-> ValueInterface(of.value, h), err |-> ""]

\* ObjField.Get, in heap h: [value, err]
Get(of, h) ==
    IF ~IsValid(of) THEN [value |-> NilIface, err |-> "invalid field"]
    ELSE IF ~IsExported(of)
    THEN [value |-> NilIface, err |-> "cannot read unexported field"]
    ELSE [value |-> ValueInterface(of.value, h), err |-> ""]

(***************************************************************************)
(* Methods.  The signature of a method is the types of its parameters      *)
(* after the receiver and the types of its results.                        *)
(***************************************************************************)
MethodIn(name) ==
    CASE name = "Add" -> << Named("int"), Named("int"), Named("int") >>
      [] name = "Subtract" -> << Named("int"), Named("int") >>
      [] name = "ReturnsError" -> << Named("bool") >>
      [] name = "Hi" -> << Named("string") >>
      [] OTHER -> << >>

MethodOut(name) ==
    CASE name = "Add" -> << Named("int") >>
      [] name = "Subtract" -> << Named("int") >>
      [] name = "ReturnsError" -> << Named("string"), PtrTo("int"), Named("error") >>
      [] name = "Hi" -> << Named("string") >>
      [] name = "Method1" -> << Named("string") >>
      [] name = "Method2" -> << Named("int") >>
      [] OTHER -> << >>

\* the error errors.New returns; a type implements error when it is its type
ErrorHere == [ty |-> PtrTo("errorString"), v |-> "error here", addr |-> 0]
ImplementsError(ty) == ty = PtrTo("errorString")

\* the receiver's Person, read by Hi: the struct itself or the one embedded
\* in an Employee
ReceiverName(recv, h) ==
    LET payload == IF Kind(recv.ty) = "ptr" THEN h[recv.addr].val ELSE recv.v
    IN IF recv.ty.n = "Employee" THEN payload[1][1] ELSE payload[1]

\* what the body of a method returns, each result as out[n].Interface()
\* gives it: a nil error is the nil interface, a nil *int is not
MethodBody(name, recv, args, h) ==
    CASE name = "Add" ->
           << [ty |-> Named("int"), v |-> args[1].v + args[2].v + args[3].v, addr |-> 0] >>
      [] name = "Subtract" ->
           << [ty |-> Named("int"), v |-> args[1].v - args[2].v, addr |-> 0] >>
      [] name = "ReturnsError" ->
           IF args[1].v
           THEN << [ty |-> Named("string"), v |-> "", addr |-> 0],
                   [ty |-> PtrTo("int"), v |-> "nilptr", addr |-> 0],
                   ErrorHere >>
           ELSE << [ty |-> Named("string"), v |-> "jen", addr |-> 0],
                   [ty |-> PtrTo("int"), v |-> "ptr", addr |-> 0],
                   NilIface >>
      [] name = "Hi" ->
           << [ty |-> Named("string"),
               v |-> << "Hi", args[1].v, ReceiverName(recv, h) >>, addr |-> 0] >>
      [] name = "Method1" -> << [ty |-> Named("string"), v |-> "yep", addr |-> 0] >>
      [] name = "Method2" -> << [ty |-> Named("int"), v |-> 7, addr |-> 0] >>
      [] OTHER -> << >>

\* the declaration of the method name of the receiver's type
MethodOf(ty, name) ==
    LET ms == TypeMethods(ty) IN ms[CHOOSE i \in DOMAIN ms : ms[i].name = name]

\* Employee declares Fire, which returns nothing, and gets the other methods
\* from the Person it embeds
Promoted(n, name) == n = "Employee" /\ name # "Fire"

\* a method called on a nil pointer dereferences it when it has a value
\* receiver or is promoted from an embedded struct
DerefsReceiver(recv, name) ==
    /\ Kind(recv.ty) = "ptr"
    /\ ~MethodOf(recv.ty, name).ptrRecv \/ Promoted(recv.ty.n, name)

\* reflect.Value.Call of the method's Func on receiver and arguments:
\* panics on a wrong number of arguments, on a nil argument (the zero
\* Value), on an argument of another type than the parameter's, and when
\* the call dereferences a nil receiver
FuncCallPanics(recv, name, args) ==
    \/ Len(args) # Len(MethodIn(name))
    \/ \E n \in DOMAIN args :
          args[n].ty = NilType \/ args[n].ty # MethodIn(name)[n]
    \/ recv.addr = 0 /\ DerefsReceiver(recv, name)

\* a result wrapper that looks for the error in the first slot
newCallResult_FirstSlot(res) ==
    IF Len(res) = 0 THEN [Result |-> res, Error |-> NilIface]
    ELSE IF res[1].ty # NilType /\ ImplementsError(res[1].ty)
         THEN [Result |-> res, Error |-> res[1]]
         ELSE [Result |-> res, Error |-> NilIface]

\* newCallResult
newCallResult(res) ==
    IF Len(res) = 0 THEN [Result |-> res, Error |-> NilIface]
    ELSE LET errorCandidate == res[Len(res)] IN
         IF errorCandidate.ty # NilType /\ ImplementsError(errorCandidate.ty)
         THEN [Result |-> res, Error |-> errorCandidate]
         ELSE [Result |-> res, Error |-> NilIface]

\* CallResult.IsError
IsError(cr) == cr.Error.ty # NilType

\* newObjMethod
newObjMethod(o, objMethodMetadata) ==
    [obj |-> o.iface, objKind |-> o.md.objKind,
     name |-> objMethodMetadata.name, valid |-> objMethodMetadata.valid]

\* Obj.Method
Method(o, name) ==
    IF name \in DOMAIN o.md.methods
    THEN newObjMethod(o, o.md.methods[name])
    ELSE newObjMethod(o, [name |-> name, valid |-> FALSE])

\* Obj.Methods
Methods(o) == [i \in DOMAIN o.md.methodNames |-> Method(o, o.md.methodNames[i])]

\* ObjMethod.Name over a listing
MethodNames(ms) == [i \in DOMAIN ms |-> ms[i].name]

\* ObjMethod.IsValid
MethodIsValid(om) == om.valid

NoResult == [Result |-> << >>, Error |-> NilIface]

\* ObjMethod.Call, in heap h: [outcome, res, err], outcome "ok", "error"
\* (res is nil and an error is returned) or "panic"
Call(om, args, h) ==
    IF om.objKind = "invalid"
    THEN [outcome |-> "error", res |-> NoResult, err |-> "invalid object type"]
    ELSE IF ~MethodIsValid(om)
    THEN [outcome |-> "error", res |-> NoResult, err |-> "invalid method"]
    ELSE IF FuncCallPanics(om.obj, om.name, args)
    THEN [outcome |-> "panic", res |-> NoResult, err |-> ""]
    ELSE [outcome |-> "ok",
          res |-> newCallResult(MethodBody(om.name, om.obj, args, h)),
          err |-> ""]

(***************************************************************************)
(* Struct tags.  A tag, a key and a value are sequences of characters.     *)
(***************************************************************************)
\* the characters that end a key: a space, a colon, a quote, a control
\* character
IsKeyChar(c) == c \notin {" ", ":", "\"", "\t", "\n", "\r"}

RECURSIVE SkipSpaces(_)
SkipSpaces(tag) ==
    IF tag # << >> /\ Head(tag) = " " THEN SkipSpaces(Tail(tag)) ELSE tag

\* the number of characters of the key that tag starts with, from i on
RECURSIVE ScanKey(_, _)
ScanKey(tag, i) ==
    IF i < Len(tag) /\ IsKeyChar(tag[i + 1]) THEN ScanKey(tag, i + 1) ELSE i

\* the offset of the closing quote of the quoted string tag starts with
RECURSIVE ScanQuoted(_, _)
ScanQuoted(tag, i) ==
    IF i < Len(tag) /\ tag[i + 1] # "\""
    THEN ScanQuoted(tag, IF tag[i + 1] = "\\" THEN i + 2 ELSE i + 1)
    ELSE i

\* one round of the scanning loop: the next key and quoted value of tag and
\* the rest of it, or ok = FALSE where the loop breaks
NoPair == [ok |-> FALSE, name |-> << >>, qvalue |-> << >>, rest |-> << >>]
ScanPair(tag0) ==
    LET tag == SkipSpaces(tag0)
        i == ScanKey(tag, 0)
    IN IF tag = << >> THEN NoPair
       ELSE IF i = 0 \/ i + 1 >= Len(tag) THEN NoPair
       ELSE IF tag[i + 1] # ":" \/ tag[i + 2] # "\"" THEN NoPair
       ELSE LET tag1 == SubSeq(tag, i + 2, Len(tag))
                j == ScanQuoted(tag1, 1)
            IN IF j >= Len(tag1) THEN NoPair
               ELSE [ok |-> TRUE, name |-> SubSeq(tag, 1, i),
                     qvalue |-> SubSeq(tag1, 1, j + 1),
                     rest |-> SubSeq(tag1, j + 2, Len(tag1))]

\* strconv.Unquote of the inside of a double-quoted string: the escapes
\* \" \\ \n \t are replaced, any other escape is a syntax error
RECURSIVE UnquoteInner(_)
UnquoteInner(s) ==
    IF s = << >> THEN [ok |-> TRUE, value |-> << >>]
    ELSE IF Head(s) = "\n" \/ Head(s) = "\"" THEN [ok |-> FALSE, value |-> << >>]
    ELSE IF Head(s) # "\\" THEN
        LET r == UnquoteInner(Tail(s)) IN
        [ok |-> r.ok, value |-> IF r.ok THEN <<Head(s)>> \o r.value ELSE << >>]
    ELSE IF Len(s) < 2 \/ s[2] \notin {"\"", "\\", "n", "t"}
    THEN [ok |-> FALSE, value |-> << >>]
    ELSE LET r == UnquoteInner(SubSeq(s, 3, Len(s)))
             c == IF s[2] = "n" THEN "\n" ELSE IF s[2] = "t" THEN "\t" ELSE s[2]
         IN [ok |-> r.ok, value |-> IF r.ok THEN <<c>> \o r.value ELSE << >>]

\* an unquote that strips the quotes and leaves every escape as written
Unquote_KeepsEscapes(q) ==
    IF Len(q) < 2 \/ q[1] # "\"" \/ q[Len(q)] # "\""
    THEN [ok |-> FALSE, value |-> << >>]
    ELSE [ok |-> TRUE, value |-> SubSeq(q, 2, Len(q) - 1)]

\* strconv.Unquote of a double-quoted string
Unquote(q) ==
    IF Len(q) < 2 \/ q[1] # "\"" \/ q[Len(q)] # "\""
    THEN [ok |-> FALSE, value |-> << >>]
    ELSE UnquoteInner(SubSeq(q, 2, Len(q) - 1))

\* reflect.StructTag.Lookup: the value of the first pair with the key
RECURSIVE TagLookup(_, _)
TagLookup(tag, key) ==
    LET p == ScanPair(tag) IN
    IF ~p.ok THEN [value |-> << >>, ok |-> FALSE]
    ELSE IF p.name = key THEN
        (IF Unquote(p.qvalue).ok
         THEN [value |-> Unquote(p.qvalue).value, ok |-> TRUE]
         ELSE [value |-> << >>, ok |-> FALSE])
    ELSE TagLookup(p.rest, key)

\* reflect.StructTag.Get
TagGet(tag, key) == TagLookup(tag, key).value

\* a split that gives no piece for an empty string
RECURSIVE SplitCommas_NoEmpty(_, _)
SplitCommas_NoEmpty(s, cur) ==
    IF s = << >> THEN (IF cur = << >> THEN << >> ELSE << cur >>)
    ELSE IF Head(s) = "," THEN << cur >> \o SplitCommas_NoEmpty(Tail(s), << >>)
    ELSE SplitCommas_NoEmpty(Tail(s), Append(cur, Head(s)))

\* strings.Split(s, ","), cur the piece being read
RECURSIVE SplitCommas(_, _)
SplitCommas(s, cur) ==
    IF s = << >> THEN << cur >>
    ELSE IF Head(s) = "," THEN << cur >> \o SplitCommas(Tail(s), << >>)
    ELSE SplitCommas(Tail(s), Append(cur, Head(s)))

\* the loop of ObjField.Tags over what is left of the tag; res maps the
\* keys read so far to their values
RECURSIVE TagsLoop(_, _)
TagsLoop(tag, res) ==
    LET p == ScanPair(tag) IN
    IF ~p.ok THEN [value |-> res, err |-> ""]
    ELSE IF ~Unquote(p.qvalue).ok
    THEN [value |-> << >>, err |-> "cannot unquote tag"]
    ELSE TagsLoop(p.rest,
                  [k \in DOMAIN res \cup {p.name} |->
                      IF k = p.name THEN Unquote(p.qvalue).value ELSE res[k]])

\* ObjField.Tag: [value, err]
Tag(of, tag) ==
    IF ~IsValid(of) THEN [value |-> << >>, err |-> "invalid field"]
    ELSE [value |-> TagGet(of.md.structField.Tag, tag), err |-> ""]

\* ObjField.Tags: [value, err], value a map from key to value
Tags(of) ==
    IF ~IsValid(of) THEN [value |-> << >>, err |-> "invalid field"]
    ELSE TagsLoop(of.md.structField.Tag, << >>)

\* ObjField.TagExpanded: [value, err]
TagExpanded(of, tag) ==
    IF ~IsValid(of) THEN [value |-> << >>, err |-> "invalid field"]
    ELSE [value |-> SplitCommas(TagGet(of.md.structField.Tag, tag), << >>),
          err |-> ""]

\* reflect.Value.Set(x) panics unless the value can be set and x is
\* assignable to its type (reflect.ValueOf(nil) never is)
Assignable(arg, v) == arg.ty # NilType /\ arg.ty = v.ty
ValueSetPanics(v, arg) == ~CanSet(v) \/ ~Assignable(arg, v)

\* the outcome of ObjField.Set(value): "ok", "error" (an error is returned)
\* or "panic" (reflect.Value.Set panics and nothing in Set recovers)
SetOutcome(of, value) ==
    IF ~IsValid(of) THEN [outcome |-> "error", err |-> "invalid field"]
    ELSE IF ~IsSettable(of) THEN [outcome |-> "error", err |-> "not settable"]
    ELSE IF ValueSetPanics(of.value, value) THEN [outcome |-> "panic", err |-> ""]
    ELSE [outcome |-> "ok", err |-> ""]

\* ObjField.Set on the view of: one the caller keeps, or the temporary of
\* obj.Field(fname).Set(value)
Set(of, value) ==
    LET r == SetOutcome(of, value) IN
    /\ heap' = IF r.outcome = "ok"
               THEN [heap EXCEPT ![of.value.addr].val =
                        Store(@, of.value.path, value.v)]
               ELSE heap
    /\ last' = [op |-> "Set", of |-> of, arg |-> value,
                outcome |-> r.outcome, err |-> r.err,
                nviews |-> Cardinality(views)]
    /\ UNCHANGED <<subject, fname, objs, views, metadataCache, metadataCached>>
    /\ UNCHANGED goroutines

\* the caller assigns p.fname itself (a scalar field the selector resolves)
Assign ==
    LET r == TypeFieldByName(Named(subject), fname) IN
    /\ r.found
    /\ Kind(r.field.Type) \in {"string", "int"}
    /\ LET v == Toggle(r.field.Type, Walk(heap[1].val, r.field.Index)) IN
       /\ heap' = [heap EXCEPT ![1].val = Store(@, r.field.Index, v)]
       /\ last' = [op |-> "Assign", of |-> NoView,
                   arg |-> [ty |-> r.field.Type, v |-> v, addr |-> 0],
                   outcome |-> "ok", err |-> "", nviews |-> Cardinality(views)]
    /\ UNCHANGED <<subject, fname, objs, views, metadataCache, metadataCached>>
    /\ UNCHANGED goroutines

NoWrite ==
    [op |-> "none", of |-> NoView, arg |-> NilIface, outcome |-> "none", err |-> "", nviews |-> 0]

\* func init()
Init ==
    /\ subject \in SubjectTypes
    /\ fname \in NamesOf(subject)
    /\ heap = << [ty |-> Named(subject), val |-> ZeroOf(Named(subject))] >>
    /\ objs = {}
    /\ views = {}
    /\ metadataCache = << >>
    /\ metadataCached = 0
    /\ last = NoWrite
    /\ pc = [t \in Procs |-> "idle"]
    /\ local = [t \in Procs |-> NoLocal]
    /\ metadataCacheMutex = [readers |-> {}, writer |-> 0, waiting |-> {}]

Next ==
    \/ \E obj \in NewInputs : New(obj)
    \/ \E o \in objs : FieldAct(o)
    \/ \E of \in views : \E a \in DOMAIN SetArgs : Set(of, SetArgs[a])
    \/ \E o \in objs : \E a \in DOMAIN SetArgs : Set(Field(o, fname), SetArgs[a])
    \/ Assign

Spec == Init /\ [][Next]_vars

(***************************************************************************)
(* Wrapping and calling methods                                            *)
(***************************************************************************)
BoolArg(b) == [ty |-> Named("bool"), v |-> b, addr |-> 0]

\* the argument lists a caller passes to Call
CallArgs ==
    << << >>, << IntArg >>, << IntArg, IntArg >>, << IntArg, IntArg, IntArg >>,
       << BoolArg(TRUE) >>, << BoolArg(FALSE) >>, << StrArg >>, << NilIface >>,
       << StrArg, IntArg >> >>

\* the method names a caller asks for: the declared ones and an unknown one
MethodNamesOf(n) == { m.name : m \in SeqRange(MethodDecls(n)) } \cup {Unknown}

\* obj.Method(name).Call(args...)
CallAct(o, name, args) ==
    /\ last' = [op |-> "Call", om |-> Method(o, name), args |-> args,
                ret |-> Call(Method(o, name), args, heap)]
    /\ UNCHANGED <<subject, fname, heap, objs, views, metadataCache, metadataCached>>
    /\ UNCHANGED goroutines

NextCall ==
    \/ \E obj \in NewInputs : New(obj)
    \/ \E ty \in {NilType, Named(subject)} : NewFromType(ty)
    \/ \E o \in objs : \E name \in MethodNamesOf(subject) :
          \E a \in DOMAIN CallArgs : CallAct(o, name, CallArgs[a])

SpecCall == Init /\ [][NextCall]_vars

(***************************************************************************)
(* The field listings, stated from the declarations                        *)
(***************************************************************************)
\* the struct type an Obj lists the fields of: T for a T or a *T
IsStructType(ty) == Kind(ty) = "struct"
ListsStruct(o) ==
    \/ IsStructType(o.iface.ty)
    \/ Kind(o.iface.ty) = "ptr" /\ IsStructType(Elem(o.iface.ty))
StructOf(o) == o.iface.ty.n

IsEmbeddedStruct(f) == f.Anonymous /\ IsStructType(f.Type)

\* declaration order, an anonymous struct-typed field replaced by its own
\* flattened fields
RECURSIVE FlattenedDecl(_)
RECURSIVE FlattenedFrom(_, _)
FlattenedFrom(decl, i) ==
    IF i > Len(decl) THEN << >>
    ELSE (IF IsEmbeddedStruct(decl[i]) THEN FlattenedDecl(decl[i].Type.n)
          ELSE << decl[i].Name >>) \o FlattenedFrom(decl, i + 1)
FlattenedDecl(n) == FlattenedFrom(StructDecl(n), 1)

\* declaration order, the name of an anonymous struct-typed field followed
\* by the listing of the embedded struct
RECURSIVE AllDecl(_)
RECURSIVE AllFrom(_, _)
AllFrom(decl, i) ==
    IF i > Len(decl) THEN << >>
    ELSE << decl[i].Name >>
         \o (IF IsEmbeddedStruct(decl[i]) THEN AllDecl(decl[i].Type.n) ELSE << >>)
         \o AllFrom(decl, i + 1)
AllDecl(n) == AllFrom(StructDecl(n), 1)

\* the names declared directly in the struct
DirectDecl(n) == [i \in DOMAIN StructDecl(n) |-> StructDecl(n)[i].Name]

\* C1: FieldsFlattened() lists the field names in declaration order with
\* every anonymous struct-typed field replaced, recursively, by the
\* flattened fields of the embedded struct; for a Person, wrapped by value
\* or by pointer, that is Name, Street, Number.
C1_FieldsFlattened ==
    \A o \in objs : ListsStruct(o) =>
        /\ ViewNames(FieldsFlattened(o)) = FlattenedDecl(StructOf(o))
        /\ StructOf(o) = "Person" =>
               ViewNames(FieldsFlattened(o)) = << "Name", "Street", "Number" >>

\* a Person wrapped by value and a Person wrapped by pointer, both listed
C1_Witness ==
    /\ subject = "Person"
    /\ \E o1, o2 \in objs :
          /\ Kind(o1.iface.ty) = "struct"
          /\ Kind(o2.iface.ty) = "ptr" /\ o2.iface.addr # 0
          /\ ViewNames(FieldsFlattened(o1)) = << "Name", "Street", "Number" >>
          /\ ViewNames(FieldsFlattened(o2)) = << "Name", "Street", "Number" >>

\* C2: FieldsAll() lists every field name in declaration order and, right
\* after the name of each anonymous struct-typed field, the FieldsAll
\* listing of the embedded struct; Fields() lists only the names declared
\* directly in the struct.  For a Person: Name, Address, Street, Number and
\* Name, Address.
C2_FieldsAllAndFields ==
    \A o \in objs : ListsStruct(o) =>
        /\ ViewNames(FieldsAll(o)) = AllDecl(StructOf(o))
        /\ ViewNames(Fields(o)) = DirectDecl(StructOf(o))
        /\ StructOf(o) = "Person" =>
              /\ ViewNames(FieldsAll(o)) = << "Name", "Address", "Street", "Number" >>
              /\ ViewNames(Fields(o)) = << "Name", "Address" >>

\* an Employee: two levels of embedding, listed in full and directly
C2_Witness ==
    \E o \in objs :
        /\ ListsStruct(o) /\ StructOf(o) = "Employee"
        /\ ViewNames(FieldsAll(o)) =
              << "Person", "Name", "Address", "Street", "Number", "Salary" >>
        /\ ViewNames(Fields(o)) = << "Person", "Salary" >>

\* the positions of the anonymous fields of a struct, and the struct shape
\* the length rule speaks of: one anonymous field, of struct type, whose
\* struct declares no anonymous field itself
AnonymousAt(n) == { i \in DOMAIN StructDecl(n) : StructDecl(n)[i].Anonymous }
TheEmbedded(n) == StructDecl(n)[CHOOSE i \in AnonymousAt(n) : TRUE]
HasOneEmbeddedStruct(n) ==
    /\ Cardinality(AnonymousAt(n)) = 1
    /\ IsStructType(TheEmbedded(n).Type)
    /\ AnonymousAt(TheEmbedded(n).Type.n) = {}

\* the number of non-anonymous fields a struct declares: the exported ones
\* only, or all of them
CountOwn(n, exportedOnly) ==
    Cardinality({ i \in DOMAIN StructDecl(n) :
                    /\ ~StructDecl(n)[i].Anonymous
                    /\ exportedOnly => StructDecl(n)[i].PkgPath = "" })

LengthRule(o, exportedOnly) ==
    LET n == StructOf(o)
        M == CountOwn(n, exportedOnly)
        N == CountOwn(TheEmbedded(n).Type.n, exportedOnly)
    IN /\ Len(Fields(o)) = M + 1
       /\ Len(FieldsFlattened(o)) = M + N
       /\ Len(FieldsAll(o)) = M + 1 + N

\* C3 as stated: with M and N counting the exported non-anonymous fields,
\* Fields() has length M+1, FieldsFlattened() M+N and FieldsAll() M+1+N.
C3_ExportedCounts ==
    \A o \in objs :
        ListsStruct(o) /\ HasOneEmbeddedStruct(StructOf(o)) => LengthRule(o, TRUE)

\* C3: for a struct with M own non-anonymous fields and exactly one
\* anonymous embedded struct field whose struct has N non-anonymous fields
\* and no anonymous one, M and N counting unexported fields as well as
\* exported ones, Fields() has length M+1, FieldsFlattened() has length M+N
\* and FieldsAll() has length M+1+N.
C3_AllCounts ==
    \A o \in objs :
        ListsStruct(o) /\ HasOneEmbeddedStruct(StructOf(o)) => LengthRule(o, FALSE)

\* a Secret: the embedded struct has an exported and an unexported field
C3_Witness ==
    \E o \in objs :
        /\ ListsStruct(o) /\ StructOf(o) = "Secret"
        /\ HasOneEmbeddedStruct(StructOf(o))
        /\ CountOwn("Secret", FALSE) = 1 /\ CountOwn("address", FALSE) = 2
        /\ Len(Fields(o)) = 2 /\ Len(FieldsFlattened(o)) = 3 /\ Len(FieldsAll(o)) = 4

\* the position of the second occurrence of x in names
SecondOccurrence(names, x) ==
    LET repeats == { i \in DOMAIN names :
                       names[i] = x /\ \E j \in 1..(i - 1) : names[j] = x }
    IN CHOOSE i \in repeats : \A j \in repeats : i <= j

\* C4: FindDoubleFields() returns exactly the names that occur more than
\* once in FieldsAll(), each once however often it occurs, in the order of
\* their second occurrence, and FieldsAll() keeps every occurrence.  For a
\* Company: FieldsAll() is Address, Street, Number, Number and
\* FindDoubleFields() is Number.
C4_FindDoubleFields ==
    \A o \in objs :
        LET names == ViewNames(FieldsAll(o))
            res == FindDoubleFields(o)
        IN /\ SeqRange(res) = { x \in SeqRange(names) : Count(names, x) > 1 }
           /\ \A i, j \in DOMAIN res : i # j => res[i] # res[j]
           /\ \A i, j \in DOMAIN res : i < j =>
                  SecondOccurrence(names, res[i]) < SecondOccurrence(names, res[j])
           /\ ListsStruct(o) => Len(names) = Len(AllDecl(StructOf(o)))
           /\ ListsStruct(o) /\ StructOf(o) = "Company" =>
                 /\ names = << "Address", "Street", "Number", "Number" >>
                 /\ res = << "Number" >>

\* a Triple: Street occurs three times and Number twice, Number's second
\* occurrence first
C4_Witness ==
    \E o \in objs :
        /\ ListsStruct(o) /\ StructOf(o) = "Triple"
        /\ Count(ViewNames(FieldsAll(o)), "Street") = 3
        /\ FindDoubleFields(o) = << "Number", "Street" >>

\* the names of the unexported fields a struct declares
UnexportedDecl(n) ==
    { StructDecl(n)[i] : i \in { j \in DOMAIN StructDecl(n) :
                                   StructDecl(n)[j].PkgPath # "" } }
UnexportedNames(n) == { f.Name : f \in UnexportedDecl(n) }

\* C5 as stated: no name returned by Fields(), FieldsFlattened(),
\* FieldsAll() or FieldsAnonymous() is the name of an unexported field of
\* the struct.
C5_UnexportedSkipped ==
    \A o \in objs : ListsStruct(o) =>
        \A lt \in ListingTypes :
            SeqRange(ViewNames(ObjGetFields(o, lt)))
                \cap UnexportedNames(StructOf(o)) = {}

\* C5: non-exported fields are not skipped by the field listings: every
\* unexported field of the struct is named by Fields() and FieldsAll(), by
\* FieldsAnonymous() when it is anonymous, and by FieldsFlattened() unless
\* it is an anonymous struct-typed field.
C5_UnexportedListed ==
    \A o \in objs : ListsStruct(o) =>
        \A f \in UnexportedDecl(StructOf(o)) :
            /\ f.Name \in SeqRange(ViewNames(Fields(o)))
            /\ f.Name \in SeqRange(ViewNames(FieldsAll(o)))
            /\ f.Anonymous => f.Name \in SeqRange(ViewNames(FieldsAnonymous(o)))
            /\ ~IsEmbeddedStruct(f) => f.Name \in SeqRange(ViewNames(FieldsFlattened(o)))

\* a TestStruct: Fields() names the unexported fields "_" and "unexported"
C5_Witness ==
    \E o \in objs :
        /\ ListsStruct(o) /\ StructOf(o) = "TestStruct"
        /\ ViewNames(Fields(o)) = << "_", "Exported", "unexported" >>
        /\ ~IsExported(Fields(o)[3])

(***************************************************************************)
(* Reading and writing fields                                              *)
(***************************************************************************)
\* what the caller passed to New: a struct value, or a non-nil pointer to a
\* struct
FromStructValue(iface) == IsStructType(iface.ty)
FromPointerToStruct(iface) ==
    Kind(iface.ty) = "ptr" /\ iface.addr # 0 /\ IsStructType(Elem(iface.ty))

\* the field the selector p.name denotes in the caller's struct
DeclaredField(name) == TypeFieldByName(Named(subject), name)

\* every field of a wrapper around a struct value refuses Set
C6_NeverSettable ==
    /\ \A o \in objs : FromStructValue(o.iface) =>
          \A name \in NamesOf(subject) :
              /\ ~IsSettable(Field(o, name))
              /\ \A a \in DOMAIN SetArgs :
                    SetOutcome(Field(o, name), SetArgs[a]).outcome = "error"
    /\ last.op = "Set" /\ FromStructValue(last.of.obj) =>
          last.outcome = "error" /\ last.err # ""

\* a Set through a wrapper around a struct value changes neither the
\* caller's struct nor what Get returns
C6_FailedSetStep ==
    last'.op = "Set" /\ FromStructValue(last'.of.obj) =>
        /\ heap' = heap
        /\ Get(last'.of, heap') = Get(last'.of, heap)
        /\ \A f \in views : Get(f, heap') = Get(f, heap)

\* C6: for an Obj built from a non-pointer struct value, IsSettable() is
\* false for every field and Set(v) on any field returns an error; after
\* the failed Set the caller's struct and the value a later Get returns
\* are unchanged.
C6_NonPointerSet == []C6_NeverSettable /\ [][C6_FailedSetStep]_vars

\* Set of a value of the field's type on an exported field of a struct
\* wrapped by value: refused as not settable
C6_Witness ==
    /\ last.op = "Set" /\ FromStructValue(last.of.obj)
    /\ DeclaredField(last.of.md.name).found
    /\ DeclaredField(last.of.md.name).field.PkgPath = ""
    /\ last.arg.ty = DeclaredField(last.of.md.name).field.Type
    /\ last.outcome = "error" /\ last.err = "not settable"
    /\ heap[1].val = ZeroOf(Named(subject))

\* Set(v) through a wrapper around a pointer to a struct, on an exported
\* field, with v of the field's type
C7_Case ==
    /\ last.op = "Set" /\ FromPointerToStruct(last.of.obj)
    /\ DeclaredField(last.of.md.name).found
    /\ DeclaredField(last.of.md.name).field.PkgPath = ""
    /\ last.arg.ty = DeclaredField(last.of.md.name).field.Type

\* C7: for an Obj built from a pointer to a struct, Set(v) on an exported
\* field with a value of the field's type returns nil; afterwards the
\* pointed-to struct holds v and Get on that field returns v, through the
\* same wrapper and through a new wrapper New makes for the same pointer.
C7_PointerSet ==
    C7_Case =>
        LET name == last.of.md.name
            got == [value |-> [ty |-> last.arg.ty, v |-> last.arg.v, addr |-> 0],
                    err |-> ""]
        IN /\ last.outcome = "ok"
           /\ Walk(heap[last.of.obj.addr].val, DeclaredField(name).field.Index)
                 = last.arg.v
           /\ Get(last.of, heap) = got
           /\ \A o \in objs : o.iface = last.of.obj => Get(Field(o, name), heap) = got
           /\ Get(Field(NewObj(last.of.obj, metadataCache), name), heap) = got

\* Street of a Person, promoted from the embedded Address, set to "ulica"
C7_Witness ==
    /\ C7_Case /\ last.outcome = "ok"
    /\ subject = "Person" /\ last.of.md.name = "Street"
    /\ last.arg.v = "ulica"
    /\ heap[1].val[2][1] = "ulica"

\* C8: Get() returns the field's value at the moment of the call, not a
\* snapshot taken when the view was created: after the field is changed,
\* through a view or by the caller, every view the caller holds on that
\* field of the pointed-to struct returns the new value.
C8_LiveGet ==
    last.op \in {"Set", "Assign"} /\ last.outcome = "ok" =>
        \A f \in views :
            /\ FromPointerToStruct(f.obj) /\ f.md.name = fname
            /\ Get(f, heap).err = ""
            => IfaceEq(Get(f, heap).value, last.arg)

\* the caller assigned the field after the view was made, and the view
\* returns the assigned, non-zero value
C8_Witness ==
    /\ last.op = "Assign" /\ last.nviews = 1
    /\ \E f \in views :
          /\ FromPointerToStruct(f.obj)
          /\ Get(f, heap).err = ""
          /\ Get(f, heap).value.v = last.arg.v
          /\ last.arg.v # ZeroOf(last.arg.ty)

\* C9: IsSettable() is true if and only if the field is valid, the Obj was
\* built from a pointer to a struct, and the field is exported.
C9_IsSettable ==
    \A o \in objs : \A name \in NamesOf(subject) :
        IsSettable(Field(o, name)) <=>
            /\ IsValid(Field(o, name))
            /\ Kind(o.iface.ty) = "ptr" /\ IsStructType(Elem(o.iface.ty))
            /\ DeclaredField(name).found
            /\ DeclaredField(name).field.PkgPath = ""

\* a Secret wrapped by pointer: Street, promoted from the unexported
\* embedded struct, is settable; the embedded struct itself and zip are not
C9_Witness ==
    /\ subject = "Secret"
    /\ \E o \in objs :
          /\ FromPointerToStruct(o.iface)
          /\ IsSettable(Field(o, "Street"))
          /\ IsValid(Field(o, "zip")) /\ ~IsSettable(Field(o, "zip"))
          /\ IsValid(Field(o, "address")) /\ ~IsSettable(Field(o, "address"))

\* C10: Set(value) on a settable field with a value whose type is not the
\* field's declared type, nil included, returns an error to the caller and
\* leaves the field unchanged; no panic escapes Set.
C10_MismatchReturnsError ==
    /\ last.op = "Set"
    /\ IsSettable(last.of)
    /\ last.arg.ty # last.of.md.structField.Type
    => /\ last.outcome = "error"
       /\ last.err # ""

(***************************************************************************)
(* Tags and unexported fields                                              *)
(***************************************************************************)
\* the keys a caller asks for: those of the catalogue's tags and an absent one
TagKeys ==
    { <<"t","a","g">>, <<"t","a","g","2">>, <<"b","u">>, <<"a">>, <<"b">>,
      <<"q">>, <<"e">>, <<"n","o","n","e">> }

\* a raw tag in which the scanning loop meets a value that cannot be unquoted
RECURSIVE HasUnquotable(_)
HasUnquotable(tag) ==
    LET p == ScanPair(tag) IN
    p.ok /\ (~Unquote(p.qvalue).ok \/ HasUnquotable(p.rest))

\* the view Field(name) of o is valid and the field is unexported
ValidUnexported(o, name) ==
    /\ IsValid(Field(o, name))
    /\ DeclaredField(name).found
    /\ DeclaredField(name).field.PkgPath # ""

\* Get refuses to read the field, Set refuses with another error, Tag and
\* TagExpanded answer
UnexportedReadsAndTags(o, name) ==
    LET f == Field(o, name) IN
    /\ Get(f, heap) = [value |-> NilIface, err |-> "cannot read unexported field"]
    /\ \A a \in DOMAIN SetArgs :
          /\ SetOutcome(f, SetArgs[a]) = [outcome |-> "error", err |-> "not settable"]
          /\ SetOutcome(f, SetArgs[a]).err # Get(f, heap).err
    /\ \A key \in TagKeys :
          /\ Tag(f, key).err = ""
          /\ TagExpanded(f, key).err = ""
    /\ subject = "TestStruct" /\ name = "_" =>
          /\ Tag(f, <<"b","u">>).value = <<"b","a">>
          /\ Tags(f) = [value |-> (<<"b","u">> :> <<"b","a">>), err |-> ""]
    /\ subject = "TestStruct" /\ name = "unexported" =>
          /\ Cardinality(DOMAIN Tags(f).value) = 2
          /\ Tags(f).value[<<"a">>] = <<"1">> /\ Tags(f).value[<<"b">>] = <<"2">>

AnyNames == NamesOf(subject) \cup MethodNamesOf(subject)

\* Get and Set on the field name of o both return an error
FieldFails(o, name) ==
    /\ Get(Field(o, name), heap).value = NilIface
    /\ Get(Field(o, name), heap).err # ""
    /\ \A a \in DOMAIN SetArgs :
          SetOutcome(Field(o, name), SetArgs[a]).outcome = "error"

IsNilPointer(iface) == Kind(iface.ty) = "ptr" /\ iface.addr = 0

\* C12: New(nil) and NewFromType(nil) never fail: the Obj has IsValid() =
\* false, the four field listings and Methods() are empty, and for every
\* name Field(name).Get() returns (nil, error), Field(name).Set(v) returns
\* an error and Method(name).Call(...) returns (nil, error), none of them
\* panicking.
C12_NilObject ==
    /\ last.op = "NewFromType" /\ last.ty = NilType =>
          \E o \in objs : o.iface.ty = NilType
    /\ \A o \in objs : o.iface.ty = NilType =>
          /\ ~ObjIsValid(o)
          /\ \A lt \in ListingTypes : ObjGetFields(o, lt) = << >>
          /\ Methods(o) = << >>
          /\ \A name \in AnyNames :
                /\ FieldFails(o, name)
                /\ \A a \in DOMAIN CallArgs :
                      /\ Call(Method(o, name), CallArgs[a], heap).outcome = "error"
                      /\ Call(Method(o, name), CallArgs[a], heap).err # ""

\* NewFromType(nil) has returned, and Add called through the Obj fails
C12_Witness ==
    /\ last.op = "NewFromType" /\ last.ty = NilType
    /\ subject = "Person"
    /\ \E o \in objs :
          /\ o.iface.ty = NilType
          /\ Call(Method(o, "Add"), << IntArg, IntArg, IntArg >>, heap).err
                = "invalid object type"

\* Get on every field of a wrapper around a nil pointer fails
NilPointerGetFails(o) ==
    \A name \in AnyNames :
        /\ Get(Field(o, name), heap).value = NilIface
        /\ Get(Field(o, name), heap).err # ""

\* C13 as stated: wrapping a nil pointer with a known element type does not
\* crash: Fields() and Methods() return empty sequences and Field(x).Get()
\* fails with an error.
C13_NilPointerEmpty ==
    \A o \in objs : IsNilPointer(o.iface) =>
        /\ Fields(o) = << >>
        /\ Methods(o) = << >>
        /\ NilPointerGetFails(o)

\* C13: wrapping a nil pointer with a known element type does not crash:
\* Field(x).Get() fails with an error for every x, while Fields() and
\* Methods() list the declared fields of the element type and the methods
\* of the pointer type, and so are empty only when the element type is not
\* a struct with fields, or the pointer type has no methods.
C13_NilPointer ==
    \A o \in objs : IsNilPointer(o.iface) =>
        /\ NilPointerGetFails(o)
        /\ ViewNames(Fields(o)) = DirectDecl(o.iface.ty.n)
        /\ MethodNames(Methods(o)) =
              [i \in DOMAIN MethodDecls(o.iface.ty.n) |-> MethodDecls(o.iface.ty.n)[i].name]
        /\ Fields(o) = << >> <=> ~IsStructType(Elem(o.iface.ty))
        /\ Methods(o) = << >> <=> MethodDecls(o.iface.ty.n) = << >>

\* a nil *CustomType: no fields, two methods, Get fails
C13_Witness ==
    /\ subject = "CustomType"
    /\ \E o \in objs :
          /\ IsNilPointer(o.iface)
          /\ Fields(o) = << >>
          /\ MethodNames(Methods(o)) = << "Method1", "Method2" >>
          /\ Get(Field(o, Unknown), heap).err = "invalid field"

\* C14: an Obj built from a nil pointer to a struct type is a valid
\* struct-or-pointer-to-struct that still reports the type's shape:
\* Fields() and Methods() have the names and lengths they have for a
\* non-nil pointer of that type (2 fields and 4 methods for *Person), while
\* every field view is invalid, so Get and Set on any field name return an
\* error.
C14_NilStructPointer ==
    \A o \in objs : IsNilPointer(o.iface) /\ IsStructType(Elem(o.iface.ty)) =>
        LET live == NewObj(ByPointer, metadataCache) IN
        /\ ObjIsValid(o) /\ IsStructOrPtrToStruct(o.md)
        /\ ViewNames(Fields(o)) = ViewNames(Fields(live))
        /\ MethodNames(Methods(o)) = MethodNames(Methods(live))
        /\ subject = "Person" => Len(Fields(o)) = 2 /\ Len(Methods(o)) = 4
        /\ \A lt \in ListingTypes : \A i \in DOMAIN ObjGetFields(o, lt) :
              ~IsValid(ObjGetFields(o, lt)[i])
        /\ \A name \in AnyNames : ~IsValid(Field(o, name)) /\ FieldFails(o, name)

\* (*Person)(nil): 2 fields, 4 methods, Set on Number is refused
C14_Witness ==
    /\ subject = "Person"
    /\ \E o \in objs :
          /\ IsNilPointer(o.iface)
          /\ Len(Fields(o)) = 2 /\ Len(Methods(o)) = 4
          /\ SetOutcome(Field(o, "Number"), IntArg).outcome = "error"
          /\ Get(Field(o, Unknown), heap).err # ""

(***************************************************************************)
(* Metadata reads of a field view                                          *)
(***************************************************************************)
\* C15: ObjField.Kind() and ObjField.Type() report the field's declared
\* static type, and they resolve for every declared field name even when
\* the wrapped value is a nil pointer to the struct or the field was never
\* set; only a name that is not a declared field yields Kind() = Invalid
\* and Type() = nil.
C15_KindAndType ==
    \A o \in objs : ListsStruct(o) =>
        \A name \in NamesOf(subject) :
            LET f == Field(o, name) IN
            /\ DeclaredField(name).found =>
                  /\ ObjFieldType(f) = DeclaredField(name).field.Type
                  /\ ObjFieldKind(f) = Kind(DeclaredField(name).field.Type)
            /\ name \notin SeqRange(AllDecl(subject)) =>
                  /\ ObjFieldType(f) = NilType
                  /\ ObjFieldKind(f) = "invalid"

\* C16: IsAnonymous() and IsExported() fail closed: for every invalid
\* field view (unknown name, non-struct object, nil object) both return
\* false.
C16_FailClosed ==
    \A o \in objs : \A name \in NamesOf(subject) :
        ~IsValid(Field(o, name)) =>
            /\ ~IsAnonymous(Field(o, name))
            /\ ~IsExported(Field(o, name))

(***************************************************************************)
(* Receivers                                                               *)
(***************************************************************************)
\* args are as many as the parameters of the method name, each of the
\* parameter's type
CorrectArgs(name, args) ==
    /\ Len(args) = Len(MethodIn(name))
    /\ \A n \in DOMAIN args : args[n].ty = MethodIn(name)[n]

FromValue(o) == o.iface.ty # NilType /\ Kind(o.iface.ty) # "ptr"
FromPointer(o) == Kind(o.iface.ty) = "ptr" /\ o.iface.addr # 0

\* the method is valid and a call with correct arguments returns
Callable(o, name) ==
    /\ MethodIsValid(Method(o, name))
    /\ \A a \in DOMAIN CallArgs : CorrectArgs(name, CallArgs[a]) =>
          /\ Call(Method(o, name), CallArgs[a], heap).outcome = "ok"
          /\ Call(Method(o, name), CallArgs[a], heap).err = ""

\* the method is invalid and every call returns (nil, error)
Refused(o, name) ==
    /\ ~MethodIsValid(Method(o, name))
    /\ \A a \in DOMAIN CallArgs :
          /\ Call(Method(o, name), CallArgs[a], heap).outcome = "error"
          /\ Call(Method(o, name), CallArgs[a], heap).res = NoResult
          /\ Call(Method(o, name), CallArgs[a], heap).err # ""

ValidCall ==
    /\ last.op = "Call"
    /\ last.om.objKind # "invalid"
    /\ MethodIsValid(last.om)
    /\ CorrectArgs(last.om.name, last.args)

\* the method finishes: it is not one that dereferences a nil receiver
Finishes == ~(last.om.obj.addr = 0 /\ DerefsReceiver(last.om.obj, last.om.name))

\* the last of the returned values is a non-nil value implementing error
LastIsError(res) ==
    /\ Len(res) > 0
    /\ res[Len(res)].ty # NilType
    /\ ImplementsError(res[Len(res)].ty)

\* what Call returned wraps the values the method returned
WrapsResults ==
    LET cr == last.ret.res
        out == MethodBody(last.om.name, last.om.obj, last.args, heap)
    IN /\ last.ret.outcome = "ok"
       /\ last.ret.err = ""
       /\ cr.Result = out
       /\ Len(cr.Result) = Len(MethodOut(last.om.name))
       /\ IsError(cr) <=> LastIsError(cr.Result)
       /\ IsError(cr) => cr.Error = cr.Result[Len(cr.Result)]
       /\ last.om.name = "ReturnsError" =>
             /\ IsError(cr) <=> last.args[1].v
             /\ last.args[1].v => cr.Error = ErrorHere
             /\ ~last.args[1].v => cr.Result[3].ty = NilType
       /\ last.om.name = "Add" => cr.Result[1].v = 3 * IntArg.v /\ ~IsError(cr)
       /\ last.om.name = "Fire" => cr.Result = << >> /\ ~IsError(cr)

C19_WrongArgsError ==
    /\ last.op = "Call"
    /\ last.om.objKind # "invalid"
    /\ MethodIsValid(last.om)
    /\ ~CorrectArgs(last.om.name, last.args)
    => /\ last.ret.outcome = "error"
       /\ last.ret.err # ""

(***************************************************************************)
(* Errors of the tag reads                                                 *)
(***************************************************************************)
\* the field views a caller reads tags of: those handed out and the view of
\* every name on every wrapper
TagViews == views \cup { Field(o, name) : o \in objs, name \in NamesOf(subject) }

AbsentKey == <<"n","o","n","e">>

\* Tag and TagExpanded fail exactly on an invalid view; on a valid one an
\* absent key reads as "" and expands to [""], an empty value expands to
\* [""], and no expansion is empty
TagReads(of) ==
    /\ \A key \in TagKeys :
          /\ Tag(of, key).err # "" <=> ~IsValid(of)
          /\ TagExpanded(of, key).err # "" <=> ~IsValid(of)
          /\ IsValid(of) =>
                /\ TagExpanded(of, key).value # << >>
                /\ Tag(of, key).value = << >> =>
                      TagExpanded(of, key).value = << << >> >>
    /\ IsValid(of) =>
          /\ Tag(of, AbsentKey) = [value |-> << >>, err |-> ""]
          /\ TagExpanded(of, AbsentKey) = [value |-> << << >> >>, err |-> ""]
    /\ IsValid(of) /\ of.md.structField.Tag = TagBe =>
          TagExpanded(of, <<"t","a","g","2">>).value = << <<"1">>, <<"2">>, <<"3">> >>
    /\ IsValid(of) /\ of.md.structField.Tag = TagEmpty =>
          /\ Tag(of, <<"e">>) = [value |-> << >>, err |-> ""]
          /\ TagExpanded(of, <<"e">>).value = << << >> >>

ExpectedTags(tag) ==
    CASE tag = TagBe -> (<<"t","a","g">> :> <<"b","e">>)
                          @@ (<<"t","a","g","2">> :> <<"1",",","2",",","3">>)
      [] tag = TagBi -> (<<"t","a","g">> :> <<"b","i">>)
      [] tag = TagBu -> (<<"t","a","g">> :> <<"b","u">>)
      [] tag = TagBa -> (<<"b","u">> :> <<"b","a">>)
      [] tag = TagTwo -> (<<"a">> :> <<"1">>) @@ (<<"b">> :> <<"2">>)
      [] tag = TagQuoted -> (<<"q">> :> <<"a","\"","b">>)
      [] tag = TagEmpty -> (<<"e">> :> << >>)
      [] tag = TagTwice -> (<<"a">> :> <<"2">>)
      [] tag = TagTrailing -> (<<"a">> :> <<"1">>)
      [] tag = TagBroken -> (<<"a">> :> <<"1">>)
      [] OTHER -> << >>

TypesWrapped == { TypeOf(o.iface) : o \in objs }

\* C22: over any sequence of New calls the metadata of a type is built once,
\* on the first New for that type: the build counter and the number of
\* cache entries both equal the number of distinct types passed to New so
\* far, and every wrapper of a type carries the metadata the first New of
\* that type built.
C22_BuiltOnce ==
    /\ metadataCached = Cardinality(TypesWrapped)
    /\ DOMAIN metadataCache = TypesWrapped
    /\ Cardinality(DOMAIN metadataCache) = metadataCached
    /\ \A o \in objs :
          /\ o.md = metadataCache[TypeOf(o.iface)]
          /\ o.md = newObjMetadata(TypeOf(o.iface))
    /\ \A o \in objs : \A q \in objs :
          TypeOf(o.iface) = TypeOf(q.iface) => o.md = q.md

\* a New of a type already in the cache leaves the cache and the counter as
\* they are; a New of another type adds one entry and counts one build
C22_NewSteps ==
    [][ objs' # objs =>
          \E o \in objs' \ objs :
             IF TypeOf(o.iface) \in DOMAIN metadataCache
             THEN metadataCache' = metadataCache /\ metadataCached' = metadataCached
             ELSE /\ metadataCached' = metadataCached + 1
                  /\ DOMAIN metadataCache' = DOMAIN metadataCache \cup {TypeOf(o.iface)}
                  /\ \A ty \in DOMAIN metadataCache :
                        metadataCache'[ty] = metadataCache[ty] ]_vars

C22_BuiltOnceAlways == []C22_BuiltOnce /\ C22_NewSteps

\* two wrappers of one pointer type, a live and a nil pointer, after one
\* build
C22_Witness ==
    /\ metadataCached = 1
    /\ \E o \in objs : \E q \in objs :
          /\ o # q
          /\ TypeOf(o.iface) = TypeOf(q.iface)
          /\ Kind(TypeOf(o.iface)) = "ptr"
          /\ o.md = q.md

(***************************************************************************)
(* Tag against Tags                                                        *)
(***************************************************************************)
\* C29: on a valid field Tag(key) and Tags() agree: for every key in the
\* map Tags() returns, Tag(key) returns the same value, and for every key
\* with a non-empty Tag(key) the map contains that key; also for a raw tag
\* that repeats a key or ends in a malformed fragment.
C29_TagAndTagsAgree ==
    \A of \in TagViews : IsValid(of) =>
        /\ \A key \in DOMAIN Tags(of).value :
              Tag(of, key).value = Tags(of).value[key]
        /\ \A key \in TagKeys :
              Tag(of, key).value # << >> => key \in DOMAIN Tags(of).value

(***************************************************************************)
(* NewFromType                                                             *)
(***************************************************************************)
\* the wrapper the last NewFromType returned, and New(&T{}) of the zero
\* value in the first heap cell
FromTypeObj == NewObj(last.obj, metadataCache)
FreshPointerObj == NewObj(ByPointer, metadataCache)

FromStructType == last.op = "NewFromType" /\ IsStructType(last.ty)

\* the two wrappers have the same shape and the same reads
SameWrapper(o, q) ==
    /\ o.md.objType = q.md.objType
    /\ o.md.objKind = q.md.objKind
    /\ o.md.underlyingType = q.md.underlyingType
    /\ \A lt \in ListingTypes :
          /\ ViewNames(ObjGetFields(o, lt)) = ViewNames(ObjGetFields(q, lt))
          /\ \A i \in DOMAIN ObjGetFields(o, lt) :
                /\ IsValid(ObjGetFields(o, lt)[i]) = IsValid(ObjGetFields(q, lt)[i])
                /\ Get(ObjGetFields(o, lt)[i], heap) = Get(ObjGetFields(q, lt)[i], heap)
    /\ MethodNames(Methods(o)) = MethodNames(Methods(q))
    /\ \A i \in DOMAIN Methods(o) :
          MethodIsValid(Methods(o)[i]) = MethodIsValid(Methods(q)[i])

\* C28: NewFromType(T) for a struct type T is equivalent to New(&T{}) on a
\* fresh zero value: the wrappers have the same type *T, kind pointer,
\* underlying type T, field listings and method listings, and every
\* exported field of the NewFromType wrapper is settable.
C28_NewFromType ==
    FromStructType =>
        /\ FromTypeObj \in objs
        /\ FromTypeObj.md.objType = PtrTo(last.ty.n)
        /\ last.obj.addr \in DOMAIN heap
        /\ heap[last.obj.addr] = [ty |-> last.ty, val |-> ZeroOf(last.ty)]
        /\ FromTypeObj.md.objKind = "ptr"
        /\ FromTypeObj.md.underlyingType = last.ty
        /\ SameWrapper(FromTypeObj, FreshPointerObj)
        /\ \A name \in NamesOf(subject) :
              LET f == Field(FromTypeObj, name) IN
              /\ IsValid(f) = IsValid(Field(FreshPointerObj, name))
              /\ IsValid(f) /\ IsExported(f) => IsSettable(f)
              /\ IsSettable(f) = IsSettable(Field(FreshPointerObj, name))

\* NewFromType(Person): a *Person with four methods whose field Name is
\* settable
C28_Witness ==
    /\ FromStructType
    /\ subject = "Person"
    /\ FromTypeObj \in objs
    /\ Len(Methods(FromTypeObj)) = 4
    /\ ViewNames(Fields(FromTypeObj)) = << "Name", "Address" >>
    /\ IsSettable(Field(FromTypeObj, "Name"))

(***************************************************************************)
(* New called by several goroutines, with the cache behind a sync.RWMutex. *)
(* pc[t] names the statement goroutine t runs next.                        *)
(***************************************************************************)
\* the ObjMetadata under construction after the listings are filled and
\* before the field and method maps are
PartialMetadata(ty) ==
    IF ty = NilType THEN newObjMetadata(ty)
    ELSE [newObjMetadata(ty) EXCEPT !.fields = << >>, !.methods = << >>,
                                    !.methodNames = << >>]

Goto(t, label) == pc' = [pc EXCEPT ![t] = label]

\* the values passed to New so far, by calls that returned or are running
Passed ==
    { o.iface : o \in objs }
        \cup { local[t].obj : t \in { u \in Procs : pc[u] # "idle" } }

\* the caller's New(obj): o := &Obj{iface: obj}; ty := reflect.TypeOf(obj);
\* a goroutine calls New again when its call has returned
NewCall(t, obj) ==
    /\ pc[t] = "idle"
    /\ Cardinality(Passed \cup {obj}) <= MaxObjs
    /\ Goto(t, "RLock")
    /\ local' = [local EXCEPT ![t] = [NoLocal EXCEPT !.obj = obj]]
    /\ UNCHANGED <<subject, fname, heap, objs, views, metadataCache,
                   metadataCached, last, metadataCacheMutex>>

\* metadataCacheMutex.RLock(): waits while a writer holds or awaits the lock
RLock(t) ==
    /\ pc[t] = "RLock"
    /\ metadataCacheMutex.writer = 0
    /\ metadataCacheMutex.waiting = {}
    /\ metadataCacheMutex' =
          [metadataCacheMutex EXCEPT !.readers = @ \cup {t}]
    /\ Goto(t, "lookup")
    /\ UNCHANGED <<subject, fname, heap, objs, views, metadataCache,
                   metadataCached, last, local>>

\* metadata, found := metadataCache[ty]
CacheLookup(t) ==
    /\ pc[t] = "lookup"
    /\ LET ty == TypeOf(local[t].obj) IN
       local' = [local EXCEPT ![t] =
                   IF ty \in DOMAIN metadataCache
                   THEN [@ EXCEPT !.found = TRUE, !.md = metadataCache[ty]]
                   ELSE [@ EXCEPT !.found = FALSE]]
    /\ Goto(t, "RUnlock")
    /\ UNCHANGED <<subject, fname, heap, objs, views, metadataCache,
                   metadataCached, last, metadataCacheMutex>>

\* an RUnlock that goes on without releasing the read lock
RUnlock_KeepsLock(t) ==
    /\ pc[t] = "RUnlock"
    /\ Goto(t, IF local[t].found THEN "return" ELSE "build")
    /\ UNCHANGED <<subject, fname, heap, objs, views, metadataCache,
                   metadataCached, last, local, metadataCacheMutex>>

\* metadataCacheMutex.RUnlock(); if found { ... } else { ... }
RUnlock(t) ==
    /\ pc[t] = "RUnlock"
    /\ metadataCacheMutex' =
          [metadataCacheMutex EXCEPT !.readers = @ \ {t}]
    /\ Goto(t, IF local[t].found THEN "return" ELSE "build")
    /\ UNCHANGED <<subject, fname, heap, objs, views, metadataCache,
                   metadataCached, last, local>>

\* a build that puts the metadata under construction into the cache
BuildStart_Publishes(t) ==
    /\ pc[t] = "build"
    /\ local' = [local EXCEPT ![t].md = PartialMetadata(TypeOf(local[t].obj))]
    /\ metadataCache' = (TypeOf(local[t].obj) :> local'[t].md) @@ metadataCache
    /\ Goto(t, "building")
    /\ UNCHANGED <<subject, fname, heap, objs, views,
                   metadataCached, last, metadataCacheMutex>>

\* newObjMetadata, up to the listings
BuildStart(t) ==
    /\ pc[t] = "build"
    /\ local' = [local EXCEPT ![t].md = PartialMetadata(TypeOf(local[t].obj))]
    /\ Goto(t, "building")
    /\ UNCHANGED <<subject, fname, heap, objs, views, metadataCache,
                   metadataCached, last, metadataCacheMutex>>

\* newObjMetadata, the field and method maps; o.ObjMetadata = *res
BuildFinish(t) ==
    /\ pc[t] = "building"
    /\ local' = [local EXCEPT ![t].md = newObjMetadata(TypeOf(local[t].obj))]
    /\ Goto(t, "Lock")
    /\ UNCHANGED <<subject, fname, heap, objs, views, metadataCache,
                   metadataCached, last, metadataCacheMutex>>

\* updateCache: metadataCacheMutex.Lock() is called
LockRequest(t) ==
    /\ pc[t] = "Lock"
    /\ metadataCacheMutex' =
          [metadataCacheMutex EXCEPT !.waiting = @ \cup {t}]
    /\ Goto(t, "locking")
    /\ UNCHANGED <<subject, fname, heap, objs, views, metadataCache,
                   metadataCached, last, local>>

\* metadataCacheMutex.Lock() returns: no reader and no writer holds the lock
LockAcquire(t) ==
    /\ pc[t] = "locking"
    /\ metadataCacheMutex.readers = {}
    /\ metadataCacheMutex.writer = 0
    /\ metadataCacheMutex' =
          [metadataCacheMutex EXCEPT !.writer = t, !.waiting = @ \ {t}]
    /\ Goto(t, "insert")
    /\ UNCHANGED <<subject, fname, heap, objs, views, metadataCache,
                   metadataCached, last, local>>

\* an insert that makes a new map of the one entry
CacheInsert_Evicts(t) ==
    /\ pc[t] = "insert"
    /\ metadataCache' = (TypeOf(local[t].obj) :> local[t].md)
    /\ Goto(t, "Unlock")
    /\ UNCHANGED <<subject, fname, heap, objs, views,
                   metadataCached, last, local, metadataCacheMutex>>

\* updateCache: metadataCache[ty] = o.ObjMetadata
CacheInsert(t) ==
    /\ pc[t] = "insert"
    /\ metadataCache' = (TypeOf(local[t].obj) :> local[t].md) @@ metadataCache
    /\ Goto(t, "Unlock")
    /\ UNCHANGED <<subject, fname, heap, objs, views,
                   metadataCached, last, local, metadataCacheMutex>>

\* an updateCache that returns with the lock held
Unlock_Forgets(t) ==
    /\ pc[t] = "Unlock"
    /\ Goto(t, "return")
    /\ UNCHANGED <<subject, fname, heap, objs, views, metadataCache,
                   metadataCached, last, local, metadataCacheMutex>>

\* updateCache: the deferred metadataCacheMutex.Unlock()
Unlock(t) ==
    /\ pc[t] = "Unlock"
    /\ metadataCacheMutex' = [metadataCacheMutex EXCEPT !.writer = 0]
    /\ Goto(t, "return")
    /\ UNCHANGED <<subject, fname, heap, objs, views, metadataCache,
                   metadataCached, last, local>>

\* o.fieldsValue = reflect.Indirect(reflect.ValueOf(obj)); return o
NewReturn(t) ==
    /\ pc[t] = "return"
    /\ objs' = objs \cup { [iface |-> local[t].obj, md |-> local[t].md,
                             fieldsValue |-> Indirect(ValueOf(local[t].obj))] }
    /\ local' = [local EXCEPT ![t] = NoLocal]
    /\ Goto(t, "idle")
    /\ UNCHANGED <<subject, fname, heap, views, metadataCache,
                   metadataCached, last, metadataCacheMutex>>

\* the steps of goroutine t inside New
Step(t) ==
    \/ RLock(t) \/ CacheLookup(t) \/ RUnlock(t)
    \/ BuildStart(t) \/ BuildFinish(t)
    \/ LockRequest(t) \/ LockAcquire(t) \/ CacheInsert(t) \/ Unlock(t)
    \/ NewReturn(t)

\* the goroutines wrap values of one of two types
InitConcurrent == Init /\ subject \in {"Person", "CustomType"} /\ fname = Unknown

\* the goroutines wrap values of CustomType
InitFair == InitConcurrent /\ subject = "CustomType"

\* what the goroutines pass to New: p and &p, values of two types
ConcurrentInputs == { ByValue(heap), ByPointer }

NextNew ==
    \/ \E t \in Procs : \E obj \in ConcurrentInputs : NewCall(t, obj)
    \/ \E t \in Procs : Step(t)

SpecNew == InitConcurrent /\ [][NextNew]_vars

\* every goroutine inside New is scheduled again
SpecNewFair ==
    /\ InitFair
    /\ [][NextNew]_vars
    /\ \A t \in Procs : WF_vars(Step(t))

\* the goroutines also ask the wrappers they got for field views
NextConcurrent ==
    \/ \E t \in Procs : \E obj \in ConcurrentInputs : NewCall(t, obj)
    \/ \E t \in Procs : Step(t)
    \/ \E o \in objs : FieldAct(o)

SpecConcurrent == InitConcurrent /\ [][NextConcurrent]_vars

(***************************************************************************)
(* Concurrent first builds                                                 *)
(***************************************************************************)
Running(t) == pc[t] # "idle"
AllReturned == \A t \in Procs : ~Running(t)

\* goroutine t holds a finished copy of the metadata of its type
HoldsMetadata(t) ==
    \/ pc[t] \in {"Lock", "locking", "insert", "Unlock", "return"}
    \/ pc[t] = "RUnlock" /\ local[t].found

\* a lookup runs under the read lock and an insert under the write lock,
\* never both at once
LockDiscipline ==
    /\ metadataCacheMutex.writer # 0 => metadataCacheMutex.readers = {}
    /\ \A t \in Procs :
          /\ pc[t] \in {"lookup", "RUnlock"} <=> t \in metadataCacheMutex.readers
          /\ pc[t] \in {"insert", "Unlock"} <=> metadataCacheMutex.writer = t
          /\ pc[t] = "locking" <=> t \in metadataCacheMutex.waiting

\* C23: under every interleaving of concurrent New calls, for the same type
\* not yet cached too, no caller gets a partially built ObjMetadata: every
\* wrapper returned, every copy a caller took and every cache entry equals
\* what one sequential build of the type yields, and when all calls have
\* returned the cache holds one entry for each type wrapped, with that value.
C23_ConcurrentBuild ==
    /\ LockDiscipline
    /\ \A o \in objs : o.md = newObjMetadata(TypeOf(o.iface))
    /\ \A ty \in DOMAIN metadataCache : metadataCache[ty] = newObjMetadata(ty)
    /\ \A t \in Procs :
          HoldsMetadata(t) => local[t].md = newObjMetadata(TypeOf(local[t].obj))
    /\ AllReturned => DOMAIN metadataCache = TypesWrapped

\* two goroutines both missed the cache for *CustomType and both built its
\* metadata: one has inserted and returned, the other is about to insert
C23_Witness ==
    /\ subject = "CustomType"
    /\ PtrTo("CustomType") \in DOMAIN metadataCache
    /\ \E o \in objs : TypeOf(o.iface) = PtrTo("CustomType")
    /\ \E t \in Procs :
          /\ pc[t] = "insert"
          /\ ~local[t].found
          /\ TypeOf(local[t].obj) = PtrTo("CustomType")
          /\ local[t].md = metadataCache[PtrTo("CustomType")]

(***************************************************************************)
(* Readers and builders                                                    *)
(***************************************************************************)
Building(t) == pc[t] \in {"build", "building", "Lock"}
Inserting(t) == pc[t] \in {"locking", "insert", "Unlock"}

\* C24: a New for a cached type is never blocked while another goroutine
\* builds the metadata of another type, and any number of lookups hold the
\* read lock at once: a build runs with no cache lock held, the exclusive
\* lock is held only for the map insert, and RLock waits for nothing but a
\* goroutine that is between its call of Lock and its Unlock.
C24_ReadersNotBlocked ==
    /\ \A t \in Procs :
          Building(t) =>
              /\ t \notin metadataCacheMutex.readers
              /\ t \notin metadataCacheMutex.waiting
              /\ metadataCacheMutex.writer # t
    /\ \A t \in Procs :
          metadataCacheMutex.writer = t => pc[t] \in {"insert", "Unlock"}
    /\ \A t \in Procs :
          pc[t] = "RLock" /\ (\A u \in Procs : ~Inserting(u)) => ENABLED RLock(t)

\* a goroutine has read the cached metadata of one type under the read
\* lock while another is building the metadata of the other type
C24_Witness ==
    \E t \in Procs : \E u \in Procs :
        /\ pc[t] = "RUnlock" /\ local[t].found
        /\ t \in metadataCacheMutex.readers
        /\ pc[u] = "building"
        /\ TypeOf(local[u].obj) # TypeOf(local[t].obj)
        /\ TypeOf(local[u].obj) \notin DOMAIN metadataCache

(***************************************************************************)
(* The life of a cache entry                                               *)
(***************************************************************************)
\* every entry of the cache is still there after the step, with an equal
\* value
EntriesKept ==
    \A ty \in DOMAIN metadataCache :
        /\ ty \in DOMAIN metadataCache'
        /\ metadataCache'[ty] = metadataCache[ty]

\* only the insert of updateCache changes the cache: no step that hands out
\* a field view does, nor any other statement of New
OnlyInsertWrites ==
    metadataCache' # metadataCache =>
        /\ \E t \in Procs : pc[t] = "insert" /\ pc'[t] = "Unlock"
        /\ views' = views

\* C25: cache entries are never evicted or changed: once the cache holds an
\* entry for a type, after any later sequence or interleaving of New calls
\* it still holds an entry for that type with an equal value, and no
\* operation on a wrapper or a field view modifies the cache.
C25_NeverEvicted == [][EntriesKept /\ OnlyInsertWrites]_vars

\* both types are cached, a field view was handed out since, and a
\* goroutine that built the metadata of a cached type again is about to
\* insert it
C25_Witness ==
    /\ Cardinality(DOMAIN metadataCache) = 2
    /\ views # {}
    /\ \E t \in Procs :
          /\ pc[t] = "insert"
          /\ TypeOf(local[t].obj) \in DOMAIN metadataCache

(***************************************************************************)
(* Termination of New                                                      *)
(***************************************************************************)
NoLockHeld ==
    metadataCacheMutex = [readers |-> {}, writer |-> 0, waiting |-> {}]

HoldsNoLock(t) ==
    /\ t \notin metadataCacheMutex.readers
    /\ t \notin metadataCacheMutex.waiting
    /\ metadataCacheMutex.writer # t

\* a goroutine asks for the exclusive lock only when it holds no lock, it
\* holds none when New returns, and none is held when all calls returned
LocksReleased ==
    /\ \A t \in Procs : pc[t] \in {"Lock", "return", "idle"} => HoldsNoLock(t)
    /\ \A t \in Procs : pc[t] = "locking" => t \notin metadataCacheMutex.readers
    /\ AllReturned => NoLockHeld

\* C30: every New call terminates under any interleaving with other New
\* calls: a caller never requests the exclusive cache lock while it holds
\* the shared lock, every lock acquired is released before New returns,
\* and when all calls have returned no lock is held.
C30_NewTerminates ==
    /\ []LocksReleased
    /\ \A t \in Procs : Running(t) ~> ~Running(t)

\* a goroutine waits in Lock while another holds the read lock
C30_Witness ==
    \E t \in Procs : \E u \in Procs :
        /\ pc[t] = "locking"
        /\ t \in metadataCacheMutex.waiting
        /\ u \in metadataCacheMutex.readers
        /\ ~ENABLED LockAcquire(t)

(***************************************************************************)
(* Access by index and by key.  The value of a slice, an array or a string *)
(* is the sequence of its elements, that of a map a function from its keys *)
(* to interface values.  A slice or a map passed by value shares its       *)
(* elements with the caller's variable; an array or a string passed by     *)
(* value is a copy.                                                        *)
(***************************************************************************)
ElemType(ty) ==
    IF ty.n = "Text" THEN Named("uint8")
    ELSE IF ty.n = "AnyMap" THEN Declared("any")
    ELSE Named("int")

Key(str) == [ty |-> Named("string"), v |-> str, addr |-> 0]

\* the caller's variable: []int{1, 2}, [2]int{1, 2}, "jk",
\* map[string]interface{}{"11": 17, "12": nil} or the int 7
ContainerValue(n) ==
    IF n \in {"IntSlice", "IntArray"} THEN << 1, 2 >>
    ELSE IF n = "Text" THEN << "j", "k" >>
    ELSE IF n = "AnyMap" THEN ("11" :> IntArg) @@ ("12" :> NilIface)
    ELSE 7

\* what the caller passes to New: nil, the variable, a pointer to it, a nil
\* pointer
ContainerInputs ==
    { NilIface, ByPointer, NilPointer,
      [ty |-> Declared(subject),
       v |-> IF Kind(Declared(subject)) \in {"slice", "map"}
             THEN "ref" ELSE heap[1].val,
       addr |-> 0] }

\* the heap cell that holds the elements o.fieldsValue refers to, 0 for a
\* copy
ContainerCell(o) ==
    IF o.fieldsValue.addr # 0 THEN o.fieldsValue.addr
    ELSE IF Kind(o.fieldsValue.ty) \in {"slice", "map"} THEN 1
    ELSE 0

Container(o, h) ==
    IF ContainerCell(o) # 0 THEN h[ContainerCell(o)].val ELSE o.fieldsValue.base

\* Obj.Len (channels are not modelled)
ObjLen(o, h) ==
    IF Kind(o.fieldsValue.ty) \in {"array", "slice", "string"}
    THEN Len(Container(o, h))
    ELSE IF Kind(o.fieldsValue.ty) = "map"
    THEN Cardinality(DOMAIN Container(o, h))
    ELSE 0

\* Obj.IsGettableByIndex
IsGettableByIndex(o) == Kind(o.fieldsValue.ty) \in {"array", "slice", "string"}

\* Obj.IsSettableByIndex
IsSettableByIndex(o) == Kind(o.fieldsValue.ty) \in {"array", "slice"}

\* Obj.IsMap
IsMap(o) == Kind(o.fieldsValue.ty) = "map"

\* Obj.GetByIndex: [value, found, outcome]; nothing in its body panics for
\* an index in range, and the deferred recover would catch it
GetByIndex(o, index, h) ==
    IF IsGettableByIndex(o) /\ 0 <= index /\ index < ObjLen(o, h)
    THEN [value |-> [ty |-> ElemType(o.fieldsValue.ty),
                     v |-> Container(o, h)[index + 1], addr |-> 0],
          found |-> TRUE, outcome |-> "ok"]
    ELSE [value |-> NilIface, found |-> FALSE, outcome |-> "ok"]

\* reflect.Value.MapIndex and SetMapIndex panic on a key that is not
\* assignable to the key type, the zero Value of a nil key included
MapKeyPanics(key) == key.ty # Named("string")

\* a GetByKey with no deferred recover
GetByKey_NoRecover(o, key, h) ==
    IF ~IsMap(o)
    THEN [value |-> NilIface, found |-> FALSE, outcome |-> "ok"]
    ELSE IF MapKeyPanics(key)
    THEN [value |-> NilIface, found |-> FALSE, outcome |-> "panic"]
    ELSE IF key.v \in DOMAIN Container(o, h)
    THEN [value |-> Container(o, h)[key.v], found |-> TRUE, outcome |-> "ok"]
    ELSE [value |-> NilIface, found |-> FALSE, outcome |-> "ok"]

\* Obj.GetByKey: [value, found, outcome]
GetByKey(o, key, h) ==
    IF ~IsMap(o)
    THEN [value |-> NilIface, found |-> FALSE, outcome |-> "ok"]
    ELSE IF MapKeyPanics(key)
    THEN [value |-> NilIface, found |-> FALSE, outcome |-> "ok"]
    ELSE IF key.v \in DOMAIN Container(o, h)
    THEN [value |-> Container(o, h)[key.v], found |-> TRUE, outcome |-> "ok"]
    ELSE [value |-> NilIface, found |-> FALSE, outcome |-> "ok"]

\* elem.Set(reflect.ValueOf(val)) of elem := o.fieldsValue.Index(index)
\* panics unless the element is addressable (an element of a slice, or of
\* an array reached through a pointer) and val is of the element type
ElemSetPanics(o, val) ==
    \/ ~(Kind(o.fieldsValue.ty) = "slice" \/ o.fieldsValue.addr # 0)
    \/ val.ty = NilType
    \/ val.ty # ElemType(o.fieldsValue.ty)

\* the outcome of Obj.SetByIndex: "ok", "error" or "panic" (nothing in
\* SetByIndex recovers)
SetByIndexOutcome(o, index, val, h) ==
    IF index < 0 \/ ObjLen(o, h) <= index THEN "error"
    ELSE IF IsSettableByIndex(o)
    THEN (IF ElemSetPanics(o, val) THEN "panic" ELSE "ok")
    ELSE "error"

\* Obj.SetByIndex
SetByIndex(o, index, val) ==
    LET r == SetByIndexOutcome(o, index, val, heap) IN
    /\ heap' = IF r = "ok"
               THEN [heap EXCEPT ![ContainerCell(o)].val[index + 1] = val.v]
               ELSE heap
    /\ last' = [op |-> "SetByIndex", obj |-> o, at |-> index, arg |-> val,
                outcome |-> r]
    /\ UNCHANGED <<subject, fname, objs, views, metadataCache, metadataCached>>
    /\ UNCHANGED goroutines

\* the outcome of Obj.SetByKey: the deferred recover turns the panic of
\* SetMapIndex into an error
SetByKeyOutcome(o, key, val) ==
    IF IsMap(o) THEN (IF MapKeyPanics(key) THEN "error" ELSE "ok") ELSE "error"

\* Obj.SetByKey: SetMapIndex stores val, and deletes the key for a nil val
\* (the zero Value)
SetByKey(o, key, val) ==
    LET r == SetByKeyOutcome(o, key, val)
        m == heap[ContainerCell(o)].val
    IN
    /\ heap' = IF r # "ok" THEN heap
               ELSE IF val.ty = NilType
               THEN [heap EXCEPT ![ContainerCell(o)].val =
                        [k \in DOMAIN m \ {key.v} |-> m[k]]]
               ELSE [heap EXCEPT ![ContainerCell(o)].val = (key.v :> val) @@ m]
    /\ last' = [op |-> "SetByKey", obj |-> o, at |-> key, arg |-> val,
                outcome |-> r]
    /\ UNCHANGED <<subject, fname, objs, views, metadataCache, metadataCached>>
    /\ UNCHANGED goroutines

\* the indexes and keys a caller asks for
Indexes == {-1, 0, 1, 2}
KeyArgs == << Key("11"), Key("12"), Key("ulica"), IntArg, NilIface >>

InitIndex ==
    /\ subject \in {"IntSlice", "IntArray", "Text", "AnyMap", "int"}
    /\ fname = Unknown
    /\ heap = << [ty |-> Declared(subject), val |-> ContainerValue(subject)] >>
    /\ objs = {}
    /\ views = {}
    /\ metadataCache = << >>
    /\ metadataCached = 0
    /\ last = NoWrite
    /\ pc = [t \in Procs |-> "idle"]
    /\ local = [t \in Procs |-> NoLocal]
    /\ metadataCacheMutex = [readers |-> {}, writer |-> 0, waiting |-> {}]

NextIndex ==
    \/ \E obj \in ContainerInputs : New(obj)
    \/ \E o \in objs : \E i \in Indexes : \E a \in DOMAIN SetArgs :
          SetByIndex(o, i, SetArgs[a])
    \/ \E o \in objs : \E k \in DOMAIN KeyArgs : \E a \in DOMAIN SetArgs :
          SetByKey(o, KeyArgs[k], SetArgs[a])

SpecIndex == InitIndex /\ [][NextIndex]_vars

(***************************************************************************)
(* C26                                                                     *)
(***************************************************************************)
\* the kind of the value passed to New after one pointer dereference,
\* "invalid" for nil and for a nil pointer
DerefKind(o) ==
    IF o.iface.ty = NilType THEN "invalid"
    ELSE IF Kind(o.iface.ty) # "ptr" THEN Kind(o.iface.ty)
    ELSE IF o.iface.addr = 0 THEN "invalid"
    ELSE Kind(Elem(o.iface.ty))

\* the elements of that value: those of the caller's variable through a
\* pointer, a slice or a map, the copy made at the call otherwise
Elements(o) ==
    IF Kind(o.iface.ty) = "ptr" \/ o.iface.v = "ref" THEN heap[1].val
    ELSE o.iface.v

InRange(o, i) ==
    /\ DerefKind(o) \in {"array", "slice", "string"}
    /\ 0 <= i
    /\ i < Len(Elements(o))

HasKey(o, key) ==
    /\ DerefKind(o) = "map"
    /\ key.ty = Named("string")
    /\ key.v \in DOMAIN Elements(o)

GetByIndexExact(o, i) ==
    LET r == GetByIndex(o, i, heap) IN
    /\ r.outcome = "ok"
    /\ r.found <=> InRange(o, i)
    /\ r.found => r.value.v = Elements(o)[i + 1]
    /\ ~r.found => r.value = NilIface

GetByKeyExact(o, key) ==
    LET r == GetByKey(o, key, heap) IN
    /\ r.outcome = "ok"
    /\ r.found <=> HasKey(o, key)
    /\ r.found => r.value = Elements(o)[key.v]
    /\ ~r.found => r.value = NilIface

\* C26: GetByIndex and GetByKey never panic; GetByIndex(i) returns
\* (element, true) exactly when the value, after one pointer dereference,
\* is an array, a slice or a string and 0 <= i < Len(), and (nil, false)
\* otherwise; GetByKey(k) returns (value, true) exactly when the value is a
\* map that contains k, a nil stored value included, and (nil, false) for
\* a missing key, a key of the wrong type and a value that is not a map.
C26_GetNeverPanics ==
    \A o \in objs :
        /\ \A i \in Indexes : GetByIndexExact(o, i)
        /\ \A k \in DOMAIN KeyArgs : GetByKeyExact(o, KeyArgs[k])

\* a map holding a nil value under "12" after a key was stored: "12" is
\* found with a nil value, the stored key is found, an int key is not
C26_Witness ==
    /\ last.op = "SetByKey"
    /\ last.outcome = "ok"
    /\ last.arg.ty # NilType
    /\ \E o \in objs :
          /\ DerefKind(o) = "map"
          /\ GetByKey(o, Key("12"), heap) =
                 [value |-> NilIface, found |-> TRUE, outcome |-> "ok"]
          /\ GetByKey(o, last.at, heap).found
          /\ GetByKey(o, last.at, heap).value.ty = last.arg.ty
          /\ ~GetByKey(o, IntArg, heap).found

\* a slice, an array or a string with an element in range and an index out
\* of range, after an element was stored
C26_IndexWitness ==
    /\ last.op = "SetByIndex"
    /\ last.outcome = "ok"
    /\ \E o \in objs :
          /\ GetByIndex(o, last.at, heap).found
          /\ GetByIndex(o, last.at, heap).value.v = last.arg.v
          /\ ~GetByIndex(o, 2, heap).found

(***************************************************************************)
(* C27                                                                     *)
(***************************************************************************)
\* the index of the last SetByIndex is out of range, or the value it was
\* called on is not an array or a slice
MustFailByIndex ==
    \/ DerefKind(last.obj) \notin {"array", "slice"}
    \/ last.at < 0
    \/ Len(Elements(last.obj)) <= last.at

\* the last SetByKey was called on a value that is not a map, or with a
\* key that is not of the key type
MustFailByKey ==
    \/ DerefKind(last.obj) # "map"
    \/ last.at.ty # Named("string")

\* C27: SetByIndex and SetByKey report failure rather than crashing:
\* SetByIndex(i, v) returns an error when i is out of range or the value is
\* not an array or a slice, and otherwise stores v at index i; SetByKey(k, v)
\* returns an error for a value that is not a map and for a key of the wrong
\* type; neither call panics, an array wrapped by value and a value of the
\* wrong element type included.
C27_SetReportsFailure ==
    /\ last.op = "SetByIndex" =>
          /\ last.outcome # "panic"
          /\ MustFailByIndex => last.outcome = "error"
          /\ ~MustFailByIndex => last.outcome = "ok"
    /\ last.op = "SetByKey" =>
          /\ last.outcome # "panic"
          /\ MustFailByKey => last.outcome = "error"

====
